---- MODULE Spec2Model ----
(***************************************************************************)
(* Test-file generator: configuration models (src/src/models),             *)
(* value generators and file writers (src/src/generators) and the          *)
(* orchestrating service (src/src/services).                               *)
(*                                                                         *)
(* Conventions                                                             *)
(*  - Optional[T] is a tuple: <<>> is None, <<v>> is the value v.          *)
(*  - Numbers of type float are fixed-point, counted in thousandths        *)
(*    (1500 is 1.5); ToMilli lifts an integer to this scale.               *)
(*  - Paths are sequences of one-character strings, so that strip,         *)
(*    suffix and lower are computed rather than assumed.                   *)
(*  - An exception is a record [type, at, cause]; cause is a tuple holding *)
(*    the chained exception (__cause__) or <<>>.                           *)
(***************************************************************************)
EXTENDS Integers, Sequences, FiniteSets, TLC

VARIABLES
    built,      \* outcome of the caller's last model construction
    errors,     \* list returned by the last validate_configuration call
    value,      \* outcome of the last direct DataGeneratorStrategy.generate call
    rng,        \* state of the process-wide `random` module generator
    fakerRng,   \* state of the random source shared by Faker instances
    osRng,      \* state of the operating system's entropy source (uuid4)
    fs,         \* file system: [dirs, files]
    request,    \* <<r>> while a GenerationRequest is held by the caller, else <<>>
    pc,         \* position inside generate_test_data
    all_data,   \* generate_test_data: accumulated rows
    batch_start,\* generate_test_data: loop variable of the batch loop
    exc,        \* <<e>> while an exception propagates out of the try block
    result,     \* outcome of the last generate_test_data / writer call
    trace,      \* history: steps executed by the current generate_test_data call
    entry,      \* history: [rng, fakerRng, osRng, fs] when the current call began
    calls,      \* history: number of service / writer calls made so far
    made,       \* outcome of the caller's last factory call
    batch,      \* outcome of the caller's last direct _generate_batch call
    subject,    \* the column-row manager in use: its class name, "" when none
    column_widgets, \* self.column_widgets: list of rows, a row is a list of widget ids
    widgets,    \* the widgets created so far: id -> [value, destroyed]
    labels,     \* MainWindow: number of header labels created so far
    rows_var,   \* MainWindow.rows_var
    columns_var,\* MainWindow.columns_var
    filename_var,\* MainWindow.filename_var
    last,       \* history: the last manager operation and the state it began in
    cli         \* CLIGenerator.run: its arguments, where it stands, what it returned

vars == <<built, errors, value, rng, fakerRng, osRng, fs, request, pc,
          all_data, batch_start, exc, result, trace, entry, calls,
          made, batch, subject, column_widgets, widgets, labels,
          rows_var, columns_var, filename_var, last, cli>>

\* the column-row manager and its widgets
gui == <<subject, column_widgets, widgets, labels, rows_var, columns_var,
         filename_var, last>>

\* the state the constructions, the service and the writers never touch
extras == <<made, batch, gui, cli>>

----------------------------------------------------------------------------
(* Bounds of the exploration *)

\* the random sources have RngMod states each
RngMod == 4
\* numeric range bounds explored: halves k/2 for k in -MaxHalf..MaxHalf
MaxHalf == 2
\* seeds explored: 0..MaxSeed (and None)
MaxSeed == 1
\* number of generate / writer calls in one behaviour
MaxCalls == 2
\* row indices given to a direct row-builder call: 0..MaxBatchRow
MaxBatchRow == 2
\* column counts given to the column-row manager: -1..MaxCount
MaxCount == 3
\* column rows created by one manager in one behaviour
MaxRowsMade == 6
\* times one window creates its header labels in one behaviour
MaxHeaders == 2
\* widgets holding an edited value in one behaviour
MaxEdits == 1

----------------------------------------------------------------------------
(* Program constants *)

MAX_ROWS == 1000000
MAX_COLUMNS == 100
MIN_BATCH_SIZE == 100
MAX_BATCH_SIZE == 10000
DEFAULT_BATCH_SIZE == 1000
DEFAULT_MIN == 0
DEFAULT_MAX == 1000
DEFAULT_TEXT_LENGTH == 50
\* Faker.text refuses max_nb_chars below this
FAKER_MIN_TEXT == 5

None == <<>>
Some(v) == <<v>>
ToMilli(n) == n * (10 * 100)

DataType ==
    {"name", "email", "phone", "address", "company", "job", "date", "integer",
     "float", "boolean", "text", "url", "ip_address", "uuid", "credit_card"}

FileFormats == {"csv", "json", "xml", "txt", "excel"}

----------------------------------------------------------------------------
(* Strings as character sequences *)

FormatChars(fmt) ==
    CASE fmt = "csv" -> <<"c", "s", "v">>
      [] fmt = "json" -> <<"j", "s", "o", "n">>
      [] fmt = "xml" -> <<"x", "m", "l">>
      [] fmt = "txt" -> <<"t", "x", "t">>
      [] fmt = "excel" -> <<"e", "x", "c", "e", "l">>
      [] OTHER -> <<"?">>

LowerChar(c) ==
    CASE c = "C" -> "c" [] c = "S" -> "s" [] c = "V" -> "v" [] c = "T" -> "t"
      [] c = "X" -> "x" [] c = "O" -> "o" [] OTHER -> c

\* str.lower()
Lower(s) == [i \in 1..Len(s) |-> LowerChar(s[i])]

IsSpace(c) == c \in {" ", "\t", "\n"}

\* str.strip()
Strip(s) ==
    LET keep == {i \in 1..Len(s) : ~IsSpace(s[i])}
    IN  IF keep = {} THEN <<>>
        ELSE LET lo == CHOOSE i \in keep : \A j \in keep : i <= j
                 hi == CHOOSE i \in keep : \A j \in keep : j <= i
             IN  SubSeq(s, lo, hi)

\* index of the last occurrence of c in s, 0 when absent (str.rfind + 1)
RFind(s, c) ==
    LET hits == {i \in 1..Len(s) : s[i] = c}
    IN  IF hits = {} THEN 0 ELSE CHOOSE i \in hits : \A j \in hits : j <= i

\* the path without its trailing separators (pathlib drops them)
DropTrailingSep(p) ==
    LET keep == {i \in 1..Len(p) : p[i] # "/"}
    IN  IF keep = {} THEN <<>>
        ELSE SubSeq(p, 1, CHOOSE i \in keep : \A j \in keep : j <= i)

\* PurePath.name: the final component
PathName(p) ==
    LET q == DropTrailingSep(p)
        k == RFind(q, "/")
    IN  SubSeq(q, k + 1, Len(q))

\* PurePath.parent, as a character sequence (<<>> is the current directory)
PathParent(p) ==
    LET q == DropTrailingSep(p)
        k == RFind(q, "/")
    IN  IF k = 0 THEN <<>> ELSE DropTrailingSep(SubSeq(q, 1, k - 1))

\* PurePath.suffix: name[i:] for i = name.rfind('.') when 0 < i < len(name) - 1
PathSuffix(p) ==
    LET name == PathName(p)
        k == RFind(name, ".")
    IN  IF 1 < k /\ k < Len(name) THEN SubSeq(name, k, Len(name)) ELSE <<>>

----------------------------------------------------------------------------
(* Pydantic models: src/src/models/data_config.py *)

\* Outcome of a construction: the object, or the fields whose validation failed
\* (pydantic raises one ValidationError, a ValueError, listing them).
Ok(obj) == [ok |-> TRUE, obj |-> <<obj>>, errs |-> {}]
Failed(errs) == [ok |-> FALSE, obj |-> <<>>, errs |-> errs]

EmptyData == [f \in {} |-> 0]

ModelFields(model) ==
    CASE model = "ColumnConfig" ->
           <<"name", "data_type", "min_value", "max_value", "text_length">>
      [] model = "FileConfig" ->
           <<"file_format", "num_rows", "num_columns", "columns", "output_path">>
      [] model = "GenerationRequest" -> <<"config", "seed", "batch_size">>

\* ColumnConfig.validate_text_length: TRUE when the validator returns v
validate_text_length(v) == ~(v # None /\ v[1] <= 0)

\* ColumnConfig.validate_numeric_range: TRUE when the validator returns v.
\* data is info.data: the fields validated before the one being validated.
validate_numeric_range(v, data) ==
    IF v # None /\ DOMAIN data # {}
    THEN IF "min_value" \in DOMAIN data /\ "max_value" \in DOMAIN data
         THEN LET min_val == data["min_value"]
                  max_val == data["max_value"]
              IN  ~(min_val # None /\ max_val # None /\ min_val[1] >= max_val[1])
         ELSE TRUE
    ELSE TRUE

validate_columns_match_count_off(v, data) == TRUE

\* FileConfig.validate_columns_match_count
validate_columns_match_count(v, data) ==
    IF DOMAIN data # {} /\ "num_columns" \in DOMAIN data
    THEN Len(v) = data["num_columns"]
    ELSE TRUE

\* FileConfig.validate_output_path
validate_output_path(v) == Strip(v) # <<>>

RECURSIVE ModelValidate(_, _)

\* Whether field f of `model`, given as v, validates: the declared type and
\* constraints first, then the field validator (mode "after").
FieldOk(model, f, v, data) ==
    CASE model = "ColumnConfig" /\ f = "name" -> TRUE
      [] model = "ColumnConfig" /\ f = "data_type" -> v \in DataType
      [] model = "ColumnConfig" /\ f \in {"min_value", "max_value"} ->
           validate_numeric_range(v, data)
      [] model = "ColumnConfig" /\ f = "text_length" -> validate_text_length(v)
      [] model = "FileConfig" /\ f = "file_format" -> v \in FileFormats
      [] model = "FileConfig" /\ f = "num_rows" -> 1 <= v /\ v <= MAX_ROWS
      [] model = "FileConfig" /\ f = "num_columns" -> 1 <= v /\ v <= MAX_COLUMNS
      [] model = "FileConfig" /\ f = "columns" ->
           /\ \A i \in 1..Len(v) : ModelValidate("ColumnConfig", v[i]).ok
           /\ validate_columns_match_count(v, data)
      [] model = "FileConfig" /\ f = "output_path" -> validate_output_path(v)
      [] model = "GenerationRequest" /\ f = "config" ->
           ModelValidate("FileConfig", v).ok
      [] model = "GenerationRequest" /\ f = "seed" -> TRUE
      [] model = "GenerationRequest" /\ f = "batch_size" ->
           MIN_BATCH_SIZE <= v /\ v <= MAX_BATCH_SIZE

RECURSIVE ValidateFrom(_, _, _, _, _)

\* pydantic validates the fields in declaration order; a field that validated
\* joins info.data, one that did not is reported and left out of it.
ValidateFrom(model, input, k, data, errs) ==
    LET fields == ModelFields(model)
    IN  IF k > Len(fields) THEN [data |-> data, errs |-> errs]
        ELSE LET f == fields[k]
             IN  IF FieldOk(model, f, input[f], data)
                 THEN ValidateFrom(model, input, k + 1, data @@ (f :> input[f]), errs)
                 ELSE ValidateFrom(model, input, k + 1, data, errs \cup {f})

\* BaseModel.__init__ / model_validate
ModelValidate(model, input) ==
    LET r == ValidateFrom(model, input, 1, EmptyData, {})
    IN  IF r.errs = {} THEN Ok(r.data) ELSE Failed(r.errs)

ColumnConfig(input) == ModelValidate("ColumnConfig", input)
FileConfig(input) == ModelValidate("FileConfig", input)
GenerationRequest(input) == ModelValidate("GenerationRequest", input)

\* BaseModel.model_dump: the object's fields as plain data
model_dump(obj) == obj

----------------------------------------------------------------------------
(* DataGenerationService.validate_configuration *)

MSG_PYDANTIC == "Configuration validation failed"
MSG_ROWS == "Number of rows cannot exceed 1,000,000"
MSG_COLUMNS == "Number of columns cannot exceed 100"
MSG_EXTENSION == "Output file extension should match format"

AppendIf(cond, seq, msg) == IF cond THEN Append(seq, msg) ELSE seq

ExtensionMismatch_case_sensitive(config) ==
    PathSuffix(config.output_path) # <<".">> \o FormatChars(config.file_format)

ExtensionMismatch(config) ==
    Lower(PathSuffix(config.output_path)) # <<".">> \o FormatChars(config.file_format)

validate_configuration_first_only(config) ==
    IF ~ModelValidate("FileConfig", model_dump(config)).ok THEN <<MSG_PYDANTIC>>
    ELSE IF config.num_rows > MAX_ROWS THEN <<MSG_ROWS>>
    ELSE IF config.num_columns > MAX_COLUMNS THEN <<MSG_COLUMNS>>
    ELSE IF ExtensionMismatch(config) THEN <<MSG_EXTENSION>>
    ELSE <<>>

validate_configuration(config) ==
    LET e1 == AppendIf(~ModelValidate("FileConfig", model_dump(config)).ok,
                       <<>>, MSG_PYDANTIC)
        e2 == AppendIf(config.num_rows > MAX_ROWS, e1, MSG_ROWS)
        e3 == AppendIf(config.num_columns > MAX_COLUMNS, e2, MSG_COLUMNS)
        e4 == AppendIf(ExtensionMismatch(config), e3, MSG_EXTENSION)
    IN  e4

----------------------------------------------------------------------------
(* Random sources                                                          *)
(*                                                                         *)
(* Each source is a deterministic generator: its state fixes every later   *)
(* draw.  random.seed sets the state of `random` alone; the source shared  *)
(* by Faker instances and the operating system's entropy (uuid.uuid4) are  *)
(* never seeded by the program.                                            *)

RngStates == 0..(RngMod - 1)

\* state after one draw
RngNext(s) == (s + 1) % RngMod

\* random.seed(seed)
SeedState(seed) == (3 * seed + 1) % RngMod

Sources(r, f, o) == [rng |-> r, fakerRng |-> f, osRng |-> o]

Exception(type, at) == [type |-> type, at |-> at, cause |-> <<>>]

\* int(x) for a float x given in thousandths: truncation towards zero
IntOf(milli) ==
    IF milli >= 0 THEN milli \div ToMilli(1) ELSE -((-milli) \div ToMilli(1))

\* round(x, 2) for x in thousandths; x stands for the reals in [x, x + 1)
Round2(milli) == ((milli + 5) \div 10) * 10

Value(t, v) == [t |-> t, v |-> v]

\* Outcome of one generator call: the value and the sources after the draw,
\* or the exception raised.
Generated(val, src) == [ok |-> TRUE, val |-> <<val>>, src |-> src, exc |-> <<>>]
Raised(e, src) == [ok |-> FALSE, val |-> <<>>, src |-> src, exc |-> <<e>>]

\* config.min_value if config.min_value is not None else <default>
OrDefault(opt, default) == IF opt # None THEN opt[1] ELSE default

\* IntegerGenerator.generate: random.randint(int(min_val), int(max_val))
IntegerGenerator_generate(config, src) ==
    LET min_val == OrDefault(config.min_value, ToMilli(DEFAULT_MIN))
        max_val == OrDefault(config.max_value, ToMilli(DEFAULT_MAX))
        a == IntOf(min_val)
        b == IntOf(max_val)
    IN  IF a > b
        THEN Raised(Exception("ValueError", "generate"), src)
        ELSE Generated(Value("int", a + (src.rng * (b - a + 1)) \div RngMod),
                       [src EXCEPT !.rng = RngNext(@)])

\* FloatGenerator.generate: round(random.uniform(min_val, max_val), 2)
FloatGenerator_generate(config, src) ==
    LET min_val == OrDefault(config.min_value, ToMilli(DEFAULT_MIN))
        max_val == OrDefault(config.max_value, ToMilli(DEFAULT_MAX))
        u == min_val + ((max_val - min_val) * src.rng) \div RngMod
    IN  Generated(Value("float", Round2(u)), [src EXCEPT !.rng = RngNext(@)])

BooleanGenerator_generate_faker(config, src) ==
    Generated(Value("bool", IF (src.fakerRng * 2) \div RngMod = 0 THEN 1 ELSE 0),
              [src EXCEPT !.fakerRng = RngNext(@)])

\* BooleanGenerator.generate: random.choice([True, False])
BooleanGenerator_generate(config, src) ==
    Generated(Value("bool", IF (src.rng * 2) \div RngMod = 0 THEN 1 ELSE 0),
              [src EXCEPT !.rng = RngNext(@)])

\* UUIDGenerator.generate: str(uuid.uuid4()), drawn from the OS entropy
UUIDGenerator_generate(config, src) ==
    Generated(Value("uuid", src.osRng), [src EXCEPT !.osRng = RngNext(@)])

\* TextGenerator.generate: faker.text(max_nb_chars=length)
TextGenerator_generate(config, src) ==
    LET length == OrDefault(config.text_length, DEFAULT_TEXT_LENGTH)
    IN  IF length < FAKER_MIN_TEXT
        THEN Raised(Exception("ValueError", "generate"), src)
        ELSE Generated(Value("text", src.fakerRng),
                       [src EXCEPT !.fakerRng = RngNext(@)])

\* NameGenerator ... CreditCardGenerator: one call of the Faker provider
FakerGenerator_generate(config, src) ==
    Generated(Value(config.data_type, src.fakerRng),
              [src EXCEPT !.fakerRng = RngNext(@)])

\* DataGeneratorFactory._generators
generators_registry ==
    [t \in DataType |->
        CASE t = "integer" -> "IntegerGenerator"
          [] t = "float" -> "FloatGenerator"
          [] t = "boolean" -> "BooleanGenerator"
          [] t = "uuid" -> "UUIDGenerator"
          [] t = "text" -> "TextGenerator"
          [] OTHER -> "FakerGenerator"]

\* DataGeneratorFactory.create_generator
create_generator(data_type) ==
    IF data_type \notin DOMAIN generators_registry
    THEN [ok |-> FALSE, cls |-> "", exc |-> <<Exception("ValueError", "create_generator")>>]
    ELSE [ok |-> TRUE, cls |-> generators_registry[data_type], exc |-> <<>>]

\* list(cls._generators.keys()): the keys in the order the dict literal gives
get_available_types ==
    <<"name", "email", "phone", "address", "company", "job", "date", "integer",
      "float", "boolean", "text", "url", "ip_address", "uuid", "credit_card">>

\* f"Unsupported data type: {data_type}"
UnsupportedDataType(data_type) ==
    [text |-> "Unsupported data type: ", arg |-> data_type]

\* DataGeneratorStrategy.generate, dispatched on the generator's class
Generate(cls, config, src) ==
    CASE cls = "IntegerGenerator" -> IntegerGenerator_generate(config, src)
      [] cls = "FloatGenerator" -> FloatGenerator_generate(config, src)
      [] cls = "BooleanGenerator" -> BooleanGenerator_generate(config, src)
      [] cls = "UUIDGenerator" -> UUIDGenerator_generate(config, src)
      [] cls = "TextGenerator" -> TextGenerator_generate(config, src)
      [] OTHER -> FakerGenerator_generate(config, src)

----------------------------------------------------------------------------
(* Rows: a dict is a sequence of [k, v] entries in insertion order *)

DictKeys(d) == {d[i].k : i \in 1..Len(d)}

DictHas(d, k) == k \in DictKeys(d)

\* d[k]
DictGet(d, k) == d[CHOOSE i \in 1..Len(d) : d[i].k = k].v

DictSet_keep_first(d, k, v) ==
    IF DictHas(d, k) THEN d ELSE Append(d, [k |-> k, v |-> v])

\* d[k] = v: an existing key keeps its position
DictSet(d, k, v) ==
    IF DictHas(d, k)
    THEN [i \in 1..Len(d) |-> IF d[i].k = k THEN [k |-> k, v |-> v] ELSE d[i]]
    ELSE Append(d, [k |-> k, v |-> v])

\* Outcome of building rows: the rows and the sources after the draws, or the
\* exception; draws lists the <<row index, column position>> of each call made.
Built(rows, src, draws) ==
    [ok |-> TRUE, rows |-> rows, src |-> src, draws |-> draws, exc |-> <<>>]
BuildRaised(e, src, draws) ==
    [ok |-> FALSE, rows |-> <<>>, src |-> src, draws |-> draws, exc |-> e]

RECURSIVE GenerateRow(_, _, _, _, _, _)

\* the inner loop of _generate_batch: for col in config.columns
GenerateRow(config, row_num, j, row_data, src, draws) ==
    IF j > Len(config.columns) THEN Built(<<row_data>>, src, draws)
    ELSE LET col == config.columns[j]
             gen == create_generator(col.data_type)
         IN  IF ~gen.ok THEN BuildRaised(gen.exc, src, draws)
             ELSE LET g == Generate(gen.cls, col, src)
                      d == Append(draws, <<row_num, j>>)
                  IN  IF ~g.ok THEN BuildRaised(g.exc, g.src, d)
                      ELSE GenerateRow(config, row_num, j + 1,
                                       DictSet(row_data, col.name, g.val[1]),
                                       g.src, d)

RECURSIVE GenerateRows(_, _, _, _, _)

\* the outer loop of _generate_batch: for row_num in range(start_row, end_row).
\* The iterations run in ascending order, each from the sources the previous
\* one left; the range is split in halves only to keep the evaluation shallow.
GenerateRows(config, start_row, end_row, src, draws) ==
    IF start_row >= end_row THEN Built(<<>>, src, draws)
    ELSE IF end_row = start_row + 1
    THEN GenerateRow(config, start_row, 1, <<>>, src, draws)
    ELSE LET mid == (start_row + end_row) \div 2
             first == GenerateRows(config, start_row, mid, src, draws)
         IN  IF ~first.ok THEN first
             ELSE LET rest == GenerateRows(config, mid, end_row, first.src, first.draws)
                  IN  IF ~rest.ok THEN rest
                      ELSE Built(first.rows \o rest.rows, rest.src, rest.draws)

\* DataGenerationService._generate_batch
generate_batch(config, start_row, end_row, src) ==
    GenerateRows(config, start_row, end_row, src, <<>>)

----------------------------------------------------------------------------
(* File system                                                             *)
(*                                                                         *)
(* fs.dirs: the directories that exist (<<>> is the working directory),    *)
(* fs.files: path -> content, fs.denied: paths the process may not create  *)
(* or open for writing, fs.handles: the paths the process holds an open    *)
(* handle on.                                                              *)

NoFiles == [p \in {} |-> 0]

\* the path and every ancestor directory of it
Ancestors(p) ==
    {SubSeq(p, 1, k - 1) : k \in {i \in 1..Len(p) : p[i] = "/"}} \cup {p}

\* Path.mkdir(parents=True, exist_ok=True)
mkdir_parents(fs1, dir) ==
    LET chain == Ancestors(dir)
    IN  IF chain \cap DOMAIN fs1.files # {}
        THEN [ok |-> FALSE, fs |-> fs1, exc |-> <<Exception("FileExistsError", "mkdir")>>]
        ELSE IF (chain \ fs1.dirs) \cap fs1.denied # {}
        THEN [ok |-> FALSE, fs |-> fs1, exc |-> <<Exception("PermissionError", "mkdir")>>]
        ELSE [ok |-> TRUE, fs |-> [fs1 EXCEPT !.dirs = @ \cup chain], exc |-> <<>>]

\* open(path, 'w'): creates or truncates the file
open_w(fs1, path) ==
    IF PathParent(path) \notin fs1.dirs
    THEN [ok |-> FALSE, fs |-> fs1, exc |-> <<Exception("FileNotFoundError", "write")>>]
    ELSE IF path \in fs1.dirs \/ PathName(path) = <<>>
    THEN [ok |-> FALSE, fs |-> fs1, exc |-> <<Exception("IsADirectoryError", "write")>>]
    ELSE IF path \in fs1.denied
    THEN [ok |-> FALSE, fs |-> fs1, exc |-> <<Exception("PermissionError", "write")>>]
    ELSE [ok |-> TRUE,
          fs |-> [fs1 EXCEPT !.files = (path :> [format |-> "empty", payload |-> <<>>]) @@ @,
                             !.handles = @ \cup {path}],
          exc |-> <<>>]

close_leak(fs1, path) == fs1

\* file.close(): the end of a with block, on a normal exit and on an exception
close(fs1, path) == [fs1 EXCEPT !.handles = @ \ {path}]

\* the file at path holds content
WriteContent(fs1, path, content) ==
    [fs1 EXCEPT !.files = (path :> content) @@ @]

----------------------------------------------------------------------------
(* File writers: src/src/generators/file_generators.py *)

Wrote(fs1) == [ok |-> TRUE, fs |-> fs1, exc |-> <<>>]
WriteRaised(e, fs1) == [ok |-> FALSE, fs |-> fs1, exc |-> <<e>>]

\* raise ValueError("No data provided for ... generation")
EmptyDataset == [type |-> "ValueError", at |-> "no_data", cause |-> <<>>]

\* str(row.get(name, "")) and DictWriter's restval: the string form of the
\* value, <<>> being the empty string
Str(v) == <<v>>
RowGet(row, name) == IF DictHas(row, name) THEN Str(DictGet(row, name)) ELSE <<>>

FieldNames(config) == [i \in 1..Len(config.columns) |-> config.columns[i].name]

RowFields(config, row) ==
    [i \in 1..Len(config.columns) |-> RowGet(row, config.columns[i].name)]

CSVGenerator_generate_skip_partial(config, data, fs1) ==
    IF data = <<>> THEN WriteRaised(EmptyDataset, fs1)
    ELSE LET o == open_w(fs1, config.output_path)
             names == {config.columns[i].name : i \in 1..Len(config.columns)}
             full == SelectSeq(data, LAMBDA row : DictKeys(row) = names)
             records == <<FieldNames(config)>> \o
                        [i \in 1..Len(full) |-> RowFields(config, full[i])]
         IN  IF ~o.ok THEN o
             ELSE Wrote(close(WriteContent(o.fs, config.output_path,
                                     [format |-> "csv", payload |-> records]),
                                     config.output_path))

\* CSVGenerator.generate
CSVGenerator_generate(config, data, fs1) ==
    IF data = <<>> THEN WriteRaised(EmptyDataset, fs1)
    ELSE LET o == open_w(fs1, config.output_path)
             fieldnames == FieldNames(config)
             names == {fieldnames[i] : i \in 1..Len(fieldnames)}
             \* DictWriter.writerow raises on a key that is no field name
             bad == {i \in 1..Len(data) : ~(DictKeys(data[i]) \subseteq names)}
             stop == IF bad = {} THEN Len(data) + 1
                     ELSE CHOOSE i \in bad : \A j \in bad : i <= j
             records == <<fieldnames>> \o
                        [i \in 1..(stop - 1) |-> RowFields(config, data[i])]
             written == WriteContent(o.fs, config.output_path,
                                     [format |-> "csv", payload |-> records])
         IN  IF ~o.ok THEN o
             ELSE IF bad # {}
             THEN WriteRaised(Exception("ValueError", "write"),
                              close(written, config.output_path))
             ELSE Wrote(close(written, config.output_path))

JSONGenerator_generate_open_first(config, data, fs1) ==
    LET o == open_w(fs1, config.output_path)
    IN  IF ~o.ok THEN o
        ELSE IF data = <<>> THEN WriteRaised(EmptyDataset, o.fs)
        ELSE Wrote(close(WriteContent(o.fs, config.output_path,
                                [format |-> "json", payload |-> data]),
                                config.output_path))

\* JSONGenerator.generate: json.dump(data, indent=2, ensure_ascii=False)
JSONGenerator_generate(config, data, fs1) ==
    IF data = <<>> THEN WriteRaised(EmptyDataset, fs1)
    ELSE LET o == open_w(fs1, config.output_path)
         IN  IF ~o.ok THEN o
             ELSE Wrote(close(WriteContent(o.fs, config.output_path,
                                     [format |-> "json", payload |-> data]),
                                     config.output_path))

XMLGenerator_generate_row_keys(config, data, fs1) ==
    IF data = <<>> THEN WriteRaised(EmptyDataset, fs1)
    ELSE LET record(row) ==
                 [tag |-> "record",
                  children |-> [i \in 1..Len(row) |->
                      [tag |-> row[i].k, text |-> Str(row[i].v)]]]
             root == [tag |-> "data",
                      children |-> [i \in 1..Len(data) |-> record(data[i])]]
             o == open_w(fs1, config.output_path)
         IN  IF ~o.ok THEN o
             ELSE Wrote(close(WriteContent(o.fs, config.output_path,
                                     [format |-> "xml", payload |-> <<root>>]),
                                     config.output_path))

\* XMLGenerator.generate: ET.ElementTree(root).write(path)
XMLGenerator_generate(config, data, fs1) ==
    IF data = <<>> THEN WriteRaised(EmptyDataset, fs1)
    ELSE LET record(row) ==
                 [tag |-> "record",
                  children |-> [i \in 1..Len(config.columns) |->
                      [tag |-> config.columns[i].name,
                       text |-> RowGet(row, config.columns[i].name)]]]
             root == [tag |-> "data",
                      children |-> [i \in 1..Len(data) |-> record(data[i])]]
             o == open_w(fs1, config.output_path)
         IN  IF ~o.ok THEN o
             ELSE Wrote(close(WriteContent(o.fs, config.output_path,
                                     [format |-> "xml", payload |-> <<root>>]),
                                     config.output_path))

RECURSIVE JoinNames(_, _)
\* " | ".join(names[k:])
JoinNames(names, k) ==
    IF k > Len(names) THEN ""
    ELSE IF k = Len(names) THEN names[k]
    ELSE names[k] \o " | " \o JoinNames(names, k + 1)

\* TXTGenerator.generate
TXTGenerator_generate(config, data, fs1) ==
    IF data = <<>> THEN WriteRaised(EmptyDataset, fs1)
    ELSE LET o == open_w(fs1, config.output_path)
             header == JoinNames(FieldNames(config), 1)
             lines == <<[header |-> header], [dashes |-> Len(header)]>> \o
                      [i \in 1..Len(data) |-> [joined |-> RowFields(config, data[i])]]
         IN  IF ~o.ok THEN o
             ELSE Wrote(close(WriteContent(o.fs, config.output_path,
                                     [format |-> "txt", payload |-> lines]),
                                     config.output_path))

\* line breaks in str(value): Faker's address() is a street line, a line
\* break and a city line; the other generators return one line
LineBreaks(val) == IF val.t = "address" THEN 1 ELSE 0

RECURSIVE SumSeq(_, _)
\* sum(seq[k:])
SumSeq(seq, k) == IF k > Len(seq) THEN 0 ELSE seq[k] + SumSeq(seq, k + 1)

\* the number of lines of the text file: every write ends with one "\n",
\* and a field is written as it is, line breaks included
TxtLineCount(lines) ==
    LET breaks(fields) ==
            SumSeq([j \in 1..Len(fields) |->
                       IF fields[j] = <<>> THEN 0 ELSE LineBreaks(fields[j][1])], 1)
    IN  2 + SumSeq([i \in 1..(Len(lines) - 2) |->
                        1 + breaks(lines[i + 2].joined)], 1)

\* the extensions pandas has an Excel writer engine for
ExcelExtensions ==
    {<<".", "x", "l", "s", "x">>, <<".", "x", "l", "s", "m">>, <<".", "x", "l", "s">>}

\* ExcelGenerator.generate: pd.DataFrame(data).to_excel(path, index=False)
ExcelGenerator_generate(config, data, fs1) ==
    IF data = <<>> THEN WriteRaised(EmptyDataset, fs1)
    ELSE IF PathSuffix(config.output_path) \notin ExcelExtensions
    THEN WriteRaised(Exception("ValueError", "write"), fs1)
    ELSE LET o == open_w(fs1, config.output_path)
         IN  IF ~o.ok THEN o
             ELSE Wrote(close(WriteContent(o.fs, config.output_path,
                                     [format |-> "excel", payload |-> data]),
                                     config.output_path))

\* FileGeneratorFactory._generators
file_generators_registry ==
    [f \in FileFormats |->
        CASE f = "csv" -> "CSVGenerator"
          [] f = "json" -> "JSONGenerator"
          [] f = "xml" -> "XMLGenerator"
          [] f = "txt" -> "TXTGenerator"
          [] f = "excel" -> "ExcelGenerator"]

create_file_generator_fallback(file_format) ==
    [ok |-> TRUE,
     cls |-> IF file_format \in DOMAIN file_generators_registry
             THEN file_generators_registry[file_format] ELSE "CSVGenerator",
     exc |-> <<>>]

\* FileGeneratorFactory.create_generator
create_file_generator(file_format) ==
    IF file_format \notin DOMAIN file_generators_registry
    THEN [ok |-> FALSE, cls |-> "",
          exc |-> <<Exception("ValueError", "create_file_generator")>>]
    ELSE [ok |-> TRUE, cls |-> file_generators_registry[file_format], exc |-> <<>>]

\* f"Unsupported file format: {file_format}"
UnsupportedFileFormat(file_format) ==
    [text |-> "Unsupported file format: ", arg |-> file_format]

\* FileGeneratorStrategy.generate, dispatched on the writer's class
WriterGenerate(cls, config, data, fs1) ==
    CASE cls = "CSVGenerator" -> CSVGenerator_generate(config, data, fs1)
      [] cls = "JSONGenerator" -> JSONGenerator_generate(config, data, fs1)
      [] cls = "XMLGenerator" -> XMLGenerator_generate(config, data, fs1)
      [] cls = "TXTGenerator" -> TXTGenerator_generate(config, data, fs1)
      [] cls = "ExcelGenerator" -> ExcelGenerator_generate(config, data, fs1)

----------------------------------------------------------------------------
(* Inputs explored *)

Halves == {k * 500 : k \in (-MaxHalf)..MaxHalf}

\* Optional[float]: None, the halves, 0.001, 0.004 and 2000.0
NumberInputs ==
    {None} \cup {Some(n) : n \in Halves \cup {1, 4, ToMilli(2 * DEFAULT_MAX)}}

LengthInputs ==
    {None} \cup {Some(n) : n \in {-1, 0, 1, FAKER_MIN_TEXT - 1, FAKER_MIN_TEXT,
                                  DEFAULT_TEXT_LENGTH}}

TypeInputs == {"integer", "float", "boolean", "text", "uuid", "name", "bogus"}

Column(name, type, lo, hi, len) ==
    [name |-> name, data_type |-> type, min_value |-> lo, max_value |-> hi,
     text_length |-> len]

ColumnInputs ==
    {Column(n, t, lo, hi, len) :
        n \in {"id", ""}, t \in TypeInputs, lo \in NumberInputs,
        hi \in NumberInputs, len \in LengthInputs}

Stem == <<"o">>
WithExt(stem, ext) == stem \o <<".">> \o ext

\* "", " ", "o", ".csv", "o.CSV", "o.xlsx", "d/o.json", "d/" and "o.<format>"
PathInputs ==
    {<<>>, <<" ">>, Stem, <<".", "c", "s", "v">>, WithExt(Stem, <<"C", "S", "V">>),
     WithExt(Stem, <<"x", "l", "s", "x">>),
     <<"d", "/">> \o WithExt(Stem, FormatChars("json")), <<"d", "/">>}
    \cup {WithExt(Stem, FormatChars(f)) : f \in FileFormats}

\* column lists given to FileConfig: none, one, two (also with a shared name),
\* one with a non-positive text length, one with min_value >= max_value
ColumnListInputs ==
    LET id == Column("id", "integer", Some(ToMilli(1)), Some(ToMilli(5)), None)
        x  == Column("x", "float", None, None, None)
        t0 == Column("t", "text", None, None, Some(0))
        rv == Column("r", "integer", Some(ToMilli(5)), Some(ToMilli(1)), None)
    IN  {<<>>, <<id>>, <<id, x>>, <<id, id>>, <<t0>>, <<rv>>, <<id, x, x>>}

File(fmt, rows, cols, columns, path) ==
    [file_format |-> fmt, num_rows |-> rows, num_columns |-> cols,
     columns |-> columns, output_path |-> path]

FileInputs ==
    {File(fmt, rows, cols, columns, path) :
        fmt \in FileFormats \cup {"yaml"},
        rows \in {0, 1, MAX_ROWS, MAX_ROWS + 1},
        cols \in {0, 1, 2, MAX_COLUMNS + 1},
        columns \in ColumnListInputs,
        path \in PathInputs}

SeedInputs == {None} \cup {Some(n) : n \in 0..MaxSeed}

BatchSizeInputs ==
    {MIN_BATCH_SIZE - 1, MIN_BATCH_SIZE, DEFAULT_BATCH_SIZE, MAX_BATCH_SIZE,
     MAX_BATCH_SIZE + 1}

Request(config, seed, batch_size) ==
    [config |-> config, seed |-> seed, batch_size |-> batch_size]

----------------------------------------------------------------------------
(* The caller: model construction, validation and direct generator calls *)

NothingBuilt ==
    [model |-> "", input |-> <<>>, ok |-> FALSE, obj |-> <<>>, errs |-> {},
     checked |-> TRUE]

\* the outcome of Model(**input)
Construction(model, input) ==
    LET r == ModelValidate(model, input)
    IN  [model |-> model, input |-> <<input>>, ok |-> r.ok, obj |-> r.obj,
         errs |-> r.errs, checked |-> TRUE]

NoValue == [ok |-> FALSE, val |-> <<>>, exc |-> <<>>, col |-> <<>>]

Idle == pc = "idle"

pipeline == <<fs, request, pc, all_data, batch_start, exc, result, trace,
              entry, calls>>

\* ColumnConfig(name=..., data_type=..., ...)
ConstructColumn ==
    /\ Idle
    /\ built = NothingBuilt
    /\ \E input \in ColumnInputs : built' = Construction("ColumnConfig", input)
    /\ UNCHANGED <<errors, value, rng, fakerRng, osRng, pipeline, extras>>

\* FileConfig(file_format=..., ...)
ConstructFile ==
    /\ Idle
    /\ built = NothingBuilt
    /\ \E input \in FileInputs : built' = Construction("FileConfig", input)
    /\ UNCHANGED <<errors, value, rng, fakerRng, osRng, pipeline, extras>>

\* GenerationRequest(config=<the file configuration given last>, ...)
ConstructRequest ==
    /\ Idle
    /\ built.model = "FileConfig"
    /\ \E seed \in SeedInputs, batch_size \in BatchSizeInputs :
          built' = Construction("GenerationRequest",
                                Request(built.input[1], seed, batch_size))
    /\ UNCHANGED <<errors, value, rng, fakerRng, osRng, pipeline, extras>>

\* a FileConfig whose fields were set without validation
\* (FileConfig.model_construct, or assignment to a field of an instance)
ConstructUnchecked ==
    /\ Idle
    /\ built = NothingBuilt
    /\ \E input \in FileInputs :
          built' = [model |-> "FileConfig", input |-> <<input>>, ok |-> TRUE,
                    obj |-> <<input>>, errs |-> {}, checked |-> FALSE]
    /\ UNCHANGED <<errors, value, rng, fakerRng, osRng, pipeline, extras>>

\* service.validate_configuration(config)
ValidateCall ==
    /\ Idle
    /\ built.model = "FileConfig" /\ built.ok
    /\ errors' = [config |-> built.obj, list |-> validate_configuration(built.obj[1])]
    /\ UNCHANGED <<built, value, rng, fakerRng, osRng, pipeline, extras>>

\* generator = factory.create_generator(col.data_type); generator.generate(col)
GeneratorCall ==
    /\ Idle
    /\ built.model = "ColumnConfig" /\ built.ok
    /\ LET col == built.obj[1]
           gen == create_generator(col.data_type)
           g == Generate(gen.cls, col, Sources(rng, fakerRng, osRng))
       IN  /\ gen.ok
           /\ value' = [ok |-> g.ok, val |-> g.val, exc |-> g.exc, col |-> <<col>>]
           /\ rng' = g.src.rng
           /\ fakerRng' = g.src.fakerRng
           /\ osRng' = g.src.osRng
    /\ UNCHANGED <<built, errors, pipeline, extras>>

NoFs == [dirs |-> {<<>>}, files |-> NoFiles, denied |-> {}, handles |-> {}]

NoResult == [ok |-> FALSE, path |-> <<>>, exc |-> <<>>, by |-> "", given |-> 0]

NoEntry == [rng |-> 0, fakerRng |-> 0, osRng |-> 0, fs |-> NoFs]

InitPipeline ==
    /\ request = <<>>
    /\ pc = "idle"
    /\ all_data = <<>>
    /\ batch_start = 0
    /\ exc = <<>>
    /\ result = NoResult
    /\ trace = <<>>
    /\ entry = NoEntry
    /\ calls = <<>>

NoMade ==
    [by |-> "", asked |-> "", ok |-> FALSE, cls |-> "", exc |-> <<>>,
     message |-> <<>>, listed |-> <<>>, fs |-> NoFs]

NoBatch ==
    [config |-> <<>>, start_row |-> 0, end_row |-> 0, src |-> <<>>, ok |-> FALSE,
     rows |-> <<>>, draws |-> <<>>]

NoWidgets == [w \in {} |-> 0]

NoLast ==
    [op |-> "", n |-> 0, column_widgets |-> <<>>, widgets |-> NoWidgets,
     labels |-> 0, new_list |-> FALSE, raised |-> FALSE]

\* CLIGenerator.run not entered
NoCli ==
    [stage |-> "", args |-> <<>>, output_path |-> <<>>, built |-> <<>>, code |-> -1]

\* no factory or row-builder call made, no column-row manager constructed, no
\* command line run
InitExtras ==
    /\ cli = NoCli
    /\ made = NoMade
    /\ batch = NoBatch
    /\ subject = ""
    /\ column_widgets = <<>>
    /\ widgets = NoWidgets
    /\ labels = 0
    /\ rows_var = ""
    /\ columns_var = ""
    /\ filename_var = ""
    /\ last = NoLast

InitModel ==
    /\ InitExtras
    /\ built = NothingBuilt
    /\ errors = [config |-> <<>>, list |-> <<>>]
    /\ value = NoValue
    /\ rng = 0
    /\ fakerRng = 0
    /\ osRng = 0
    /\ fs = NoFs
    /\ InitPipeline

NextModel == ConstructColumn \/ ConstructFile \/ ConstructRequest \/ GeneratorCall

SpecModel == InitModel /\ [][NextModel]_vars

NextValidate == ConstructFile \/ ConstructUnchecked \/ ValidateCall

SpecValidate == InitModel /\ [][NextValidate]_vars

----------------------------------------------------------------------------
(* Requests explored by the pipeline *)

OutCsv == WithExt(Stem, FormatChars("csv"))
OutTxt == WithExt(Stem, FormatChars("txt"))
OutXlsx == WithExt(Stem, <<"x", "l", "s", "x">>)
SubDir == <<"d">>
OutSubJson == SubDir \o <<"/">> \o WithExt(Stem, FormatChars("json"))

PipelinePaths == {OutCsv, OutTxt, OutXlsx, OutSubJson}

\* numeric columns, columns drawn from Faker and the OS entropy, and a text
\* column too short for Faker.text
PipelineColumnLists ==
    {<<Column("id", "integer", Some(ToMilli(1)), Some(ToMilli(5)), None),
       Column("x", "float", None, None, None)>>,
     <<Column("u", "uuid", None, None, None),
       Column("n", "name", None, None, None)>>,
     <<Column("b", "boolean", None, None, None),
       Column("t", "text", None, None, Some(FAKER_MIN_TEXT - 1))>>}

\* every format and path with one row; one format and path with row counts
\* around one and two batches
PipelineFiles ==
    {File(fmt, 1, Len(columns), columns, path) :
        fmt \in FileFormats, columns \in PipelineColumnLists, path \in PipelinePaths}
    \cup
    {File("csv", rows, Len(columns), columns, OutCsv) :
        rows \in {MIN_BATCH_SIZE, MIN_BATCH_SIZE + 1, 2 * MIN_BATCH_SIZE + 1},
        columns \in PipelineColumnLists}

PipelineBatchSizes == {MIN_BATCH_SIZE, MIN_BATCH_SIZE + 1, MAX_BATCH_SIZE}

\* the one-row files with the default batch size, the larger ones with the
\* smallest, the next and the largest batch size
PipelineRequests ==
    {Request(config, seed, batch_size) :
        config \in {f \in PipelineFiles : f.num_rows >= MIN_BATCH_SIZE},
        seed \in SeedInputs, batch_size \in PipelineBatchSizes}
    \cup
    {Request(config, seed, DEFAULT_BATCH_SIZE) :
        config \in {f \in PipelineFiles : f.num_rows < MIN_BATCH_SIZE},
        seed \in SeedInputs}

OldContent == [format |-> "old", payload |-> <<>>]

\* the file system before the first call: empty; the output files exist
\* already; a file stands where the output directory should be; nothing may
\* be created or written
FsInputs ==
    {NoFs,
     [dirs |-> {<<>>, SubDir}, files |-> [p \in PipelinePaths |-> OldContent],
      denied |-> {}, handles |-> {}],
     [dirs |-> {<<>>}, files |-> (SubDir :> OldContent), denied |-> {}, handles |-> {}],
     [dirs |-> {<<>>}, files |-> NoFiles, denied |-> PipelinePaths \cup {SubDir},
      handles |-> {}]}

----------------------------------------------------------------------------
(* DataGenerationService.generate_test_data *)

units == <<built, errors, value>>

Step(name, lo, hi) == [step |-> name, lo |-> lo, hi |-> hi]

Min(a, b) == IF a <= b THEN a ELSE b

BatchEnd_first_only(req, start) ==
    IF start = 0 THEN Min(start + req.batch_size, req.config.num_rows) ELSE start

BatchEnd_short(req, start) == Min(start + req.batch_size, req.config.num_rows) - 1

\* batch_end = min(batch_start + request.batch_size, request.config.num_rows)
BatchEnd(req, start) == Min(start + req.batch_size, req.config.num_rows)

Extend_prepend(data, batch_data) == batch_data \o data

\* all_data.extend(batch_data)
Extend(data, batch_data) == data \o batch_data

\* str(output_path)
PathStr(path) == DropTrailingSep(path)

WrapFailure_reraise(e) == e

\* raise RuntimeError(f"Data generation failed: {str(e)}") from e
WrapFailure(e) ==
    [type |-> "RuntimeError", at |-> "generate_test_data", cause |-> <<e>>]

\* the caller builds the request it will use
NewRequest ==
    /\ Idle
    /\ request = <<>>
    /\ \E input \in PipelineRequests :
          LET r == GenerationRequest(input)
          IN  r.ok /\ request' = r.obj
    /\ UNCHANGED <<extras, units, rng, fakerRng, osRng, fs, pc, all_data, batch_start,
                   exc, result, trace, entry, calls>>

\* service.generate_test_data(request) is entered
GenerateCall ==
    /\ Idle
    /\ request # <<>>
    /\ Len(calls) < MaxCalls
    /\ pc' = "seed"
    /\ all_data' = <<>>
    /\ batch_start' = 0
    /\ exc' = <<>>
    /\ result' = NoResult
    /\ trace' = <<>>
    /\ entry' = [rng |-> rng, fakerRng |-> fakerRng, osRng |-> osRng, fs |-> fs]
    /\ calls' = Append(calls, "generate")
    /\ UNCHANGED <<extras, units, rng, fakerRng, osRng, fs, request>>

SeedStep_truthy ==
    /\ pc = "seed"
    /\ IF request[1].seed # None /\ request[1].seed[1] # 0
       THEN /\ rng' = SeedState(request[1].seed[1])
            /\ trace' = Append(trace, Step("seed", 0, 0))
       ELSE UNCHANGED <<rng, trace>>
    /\ pc' = "mkdir"
    /\ UNCHANGED <<extras, units, fakerRng, osRng, fs, request, all_data, batch_start,
                   exc, result, entry, calls>>

SeedStep_clears_seed ==
    /\ pc = "seed"
    /\ IF request[1].seed # None
       THEN /\ rng' = SeedState(request[1].seed[1])
            /\ trace' = Append(trace, Step("seed", 0, 0))
            /\ request' = <<[request[1] EXCEPT !.seed = None]>>
       ELSE UNCHANGED <<rng, trace, request>>
    /\ pc' = "mkdir"
    /\ UNCHANGED <<extras, units, fakerRng, osRng, fs, all_data, batch_start,
                   exc, result, entry, calls>>

\* if request.seed is not None: random.seed(request.seed)
SeedStep ==
    /\ pc = "seed"
    /\ IF request[1].seed # None
       THEN /\ rng' = SeedState(request[1].seed[1])
            /\ trace' = Append(trace, Step("seed", 0, 0))
       ELSE UNCHANGED <<rng, trace>>
    /\ pc' = "mkdir"
    /\ UNCHANGED <<extras, units, fakerRng, osRng, fs, request, all_data, batch_start,
                   exc, result, entry, calls>>

\* output_path.parent.mkdir(parents=True, exist_ok=True); all_data = []
MkdirStep ==
    /\ pc = "mkdir"
    /\ LET r == mkdir_parents(fs, PathParent(request[1].config.output_path))
       IN  /\ fs' = r.fs
           /\ exc' = r.exc
           /\ pc' = IF ~r.ok THEN "except"
                    ELSE IF 0 < request[1].config.num_rows THEN "batch"
                    ELSE "dispatch"
    /\ trace' = Append(trace, Step("mkdir", 0, 0))
    /\ all_data' = <<>>
    /\ batch_start' = 0
    /\ UNCHANGED <<extras, units, rng, fakerRng, osRng, request, result, entry, calls>>

\* one iteration of: for batch_start in range(0, num_rows, batch_size)
BatchStep ==
    /\ pc = "batch"
    /\ LET req == request[1]
           batch_end == BatchEnd(req, batch_start)
           r == generate_batch(req.config, batch_start, batch_end,
                               Sources(rng, fakerRng, osRng))
           next == batch_start + req.batch_size
       IN  /\ rng' = r.src.rng
           /\ fakerRng' = r.src.fakerRng
           /\ osRng' = r.src.osRng
           /\ trace' = Append(trace, Step("batch", batch_start, batch_end))
           /\ exc' = r.exc
           /\ IF r.ok
              THEN /\ all_data' = Extend(all_data, r.rows)
                   /\ batch_start' = next
                   /\ pc' = IF next < req.config.num_rows THEN "batch" ELSE "dispatch"
              ELSE /\ pc' = "except"
                   /\ UNCHANGED <<all_data, batch_start>>
    /\ UNCHANGED <<extras, units, fs, request, result, entry, calls>>

\* file_generator = self.file_generator_factory.create_generator(file_format)
DispatchStep ==
    /\ pc = "dispatch"
    /\ LET r == create_file_generator(request[1].config.file_format)
       IN  /\ exc' = r.exc
           /\ pc' = IF r.ok THEN "write" ELSE "except"
    /\ trace' = Append(trace, Step("dispatch", 0, 0))
    /\ UNCHANGED <<extras, units, rng, fakerRng, osRng, fs, request, all_data,
                   batch_start, result, entry, calls>>

\* file_generator.generate(request.config, all_data)
WriteStep ==
    /\ pc = "write"
    /\ LET cls == create_file_generator(request[1].config.file_format).cls
           w == WriterGenerate(cls, request[1].config, all_data, fs)
       IN  /\ fs' = w.fs
           /\ exc' = w.exc
           /\ pc' = IF w.ok THEN "return" ELSE "except"
    /\ trace' = Append(trace, Step("write", 0, Len(all_data)))
    /\ UNCHANGED <<extras, units, rng, fakerRng, osRng, request, all_data, batch_start,
                   result, entry, calls>>

\* return str(output_path)
ReturnStep ==
    /\ pc = "return"
    /\ result' = [ok |-> TRUE, path |-> <<PathStr(request[1].config.output_path)>>,
                  exc |-> <<>>, by |-> "generate", given |-> 0]
    /\ trace' = Append(trace, Step("return", 0, 0))
    /\ calls' = [calls EXCEPT ![Len(calls)] = "generate_ok"]
    /\ pc' = "idle"
    /\ UNCHANGED <<extras, units, rng, fakerRng, osRng, fs, request, all_data,
                   batch_start, exc, entry>>

\* except Exception as e: raise RuntimeError(...) from e
ExceptStep ==
    /\ pc = "except"
    /\ result' = [ok |-> FALSE, path |-> <<>>, exc |-> <<WrapFailure(exc[1])>>,
                  by |-> "generate", given |-> 0]
    /\ pc' = "idle"
    /\ UNCHANGED <<extras, units, rng, fakerRng, osRng, fs, request, all_data,
                   batch_start, exc, trace, entry, calls>>

\* a row the caller wrote by hand: a value for every column
CallerRow(config) ==
    [i \in 1..Len(config.columns) |->
        [k |-> config.columns[i].name, v |-> Value("int", 0)]]

\* a row the caller wrote by hand that lacks the first column's key
PartialRow(config) ==
    [i \in 1..(Len(config.columns) - 1) |->
        [k |-> config.columns[i + 1].name, v |-> Value("int", 1)]]

\* a row the caller wrote by hand with a key that is no column name
ExtraRow(config) == Append(CallerRow(config), [k |-> "extra", v |-> Value("int", 2)])

\* the row collections the caller hands to a writer: none, one full row, a
\* row lacking a key before a full one, a full row before one with a key too
\* many
WriterDataInputs(config) ==
    {<<>>, <<CallerRow(config)>>, <<PartialRow(config), CallerRow(config)>>,
     <<CallerRow(config), ExtraRow(config)>>}

\* FileGeneratorFactory.create_generator(fmt).generate(config, data), called
\* directly; all_data keeps the rows that were handed over
WriterCall ==
    /\ Idle
    /\ request # <<>>
    /\ Len(calls) < MaxCalls
    /\ \E data \in WriterDataInputs(request[1].config) :
          LET config == request[1].config
              gen == create_file_generator(config.file_format)
              w == WriterGenerate(gen.cls, config, data, fs)
          IN  /\ gen.ok
              /\ fs' = w.fs
              /\ result' = [ok |-> w.ok, path |-> <<>>, exc |-> w.exc,
                            by |-> "writer", given |-> Len(data)]
              /\ all_data' = data
    /\ entry' = [rng |-> rng, fakerRng |-> fakerRng, osRng |-> osRng, fs |-> fs]
    /\ calls' = Append(calls, "writer")
    /\ exc' = <<>>
    /\ trace' = <<>>
    /\ batch_start' = 0
    /\ UNCHANGED <<extras, units, rng, fakerRng, osRng, request, pc>>

Init ==
    /\ InitExtras
    /\ built = NothingBuilt
    /\ errors = [config |-> <<>>, list |-> <<>>]
    /\ value = NoValue
    /\ rng \in RngStates
    /\ fakerRng = 0
    /\ osRng = 0
    /\ fs \in FsInputs
    /\ InitPipeline

Next ==
    \/ NewRequest
    \/ GenerateCall
    \/ SeedStep
    \/ MkdirStep
    \/ BatchStep
    \/ DispatchStep
    \/ WriteStep
    \/ ReturnStep
    \/ ExceptStep

Spec == Init /\ [][Next]_vars

NextWriter == NewRequest \/ WriterCall

SpecWriter == Init /\ [][NextWriter]_vars

----------------------------------------------------------------------------
(* The service and the writers used together on a small catalogue *)

\* the path whose extension the writer of fmt expects
CorePath(fmt) == IF fmt = "excel" THEN OutXlsx ELSE WithExt(Stem, FormatChars(fmt))

\* one integer column, and an address column (a value of two lines) with a name
CoreColumnLists ==
    {<<Column("id", "integer", Some(ToMilli(1)), Some(ToMilli(5)), None)>>,
     <<Column("a", "address", None, None, None),
       Column("n", "name", None, None, None)>>}

\* every format with its own extension, one and five rows; csv to o.txt and
\* excel to o.csv
CoreFiles ==
    {File(fmt, rows, Len(columns), columns, CorePath(fmt)) :
        fmt \in FileFormats, rows \in {1, 5}, columns \in CoreColumnLists}
    \cup
    {File("csv", 1, Len(columns), columns, OutTxt) : columns \in CoreColumnLists}
    \cup
    {File("excel", 1, Len(columns), columns, OutCsv) : columns \in CoreColumnLists}

CoreRequests ==
    {Request(config, seed, DEFAULT_BATCH_SIZE) :
        config \in CoreFiles, seed \in SeedInputs}

\* the caller builds the request it will use
NewCoreRequest ==
    /\ Idle
    /\ request = <<>>
    /\ \E input \in CoreRequests :
          LET r == GenerationRequest(input)
          IN  r.ok /\ request' = r.obj
    /\ UNCHANGED <<extras, units, rng, fakerRng, osRng, fs, pc, all_data,
                   batch_start, exc, result, trace, entry, calls>>

\* service.validate_configuration(request.config)
ValidateRequest ==
    /\ Idle
    /\ request # <<>>
    /\ errors' = [config |-> <<request[1].config>>,
                  list |-> validate_configuration(request[1].config)]
    /\ UNCHANGED <<built, value, rng, fakerRng, osRng, pipeline, extras>>

InitCore ==
    /\ InitModel

NextCore ==
    \/ NewCoreRequest
    \/ ValidateRequest
    \/ GenerateCall
    \/ SeedStep
    \/ MkdirStep
    \/ BatchStep
    \/ DispatchStep
    \/ WriteStep
    \/ ReturnStep
    \/ ExceptStep
    \/ WriterCall

SpecCore == InitCore /\ [][NextCore]_vars

----------------------------------------------------------------------------
(* The factories called directly *)

\* the types and formats asked for: every registered one and some that are not
TypeRequests == DataType \cup {"invalid_type", "INTEGER", ""}
FormatRequests == FileFormats \cup {"yaml", "CSV", "xlsx", ""}

core == <<built, errors, value, rng, fakerRng, osRng, pipeline>>

\* DataGeneratorFactory.create_generator(data_type)
CreateGeneratorCall ==
    /\ Idle
    /\ \E data_type \in TypeRequests :
          LET r == create_generator(data_type)
          IN  made' = [by |-> "create_generator", asked |-> data_type,
                       ok |-> r.ok, cls |-> r.cls, exc |-> r.exc,
                       message |-> IF r.ok THEN <<>>
                                   ELSE <<UnsupportedDataType(data_type)>>,
                       listed |-> <<>>, fs |-> fs]
    /\ UNCHANGED <<cli, core, batch, gui>>

\* DataGeneratorFactory.get_available_types()
AvailableTypesCall ==
    /\ Idle
    /\ made' = [by |-> "get_available_types", asked |-> "", ok |-> TRUE,
                cls |-> "", exc |-> <<>>, message |-> <<>>,
                listed |-> get_available_types, fs |-> fs]
    /\ UNCHANGED <<cli, core, batch, gui>>

\* FileGeneratorFactory.create_generator(file_format)
CreateFileGeneratorCall ==
    /\ Idle
    /\ \E file_format \in FormatRequests :
          LET r == create_file_generator(file_format)
          IN  made' = [by |-> "create_file_generator", asked |-> file_format,
                       ok |-> r.ok, cls |-> r.cls, exc |-> r.exc,
                       message |-> IF r.ok THEN <<>>
                                   ELSE <<UnsupportedFileFormat(file_format)>>,
                       listed |-> <<>>, fs |-> fs]
    /\ UNCHANGED <<cli, core, batch, gui>>

NextFactory == CreateGeneratorCall \/ AvailableTypesCall \/ CreateFileGeneratorCall

SpecFactory == Init /\ [][NextFactory]_vars

----------------------------------------------------------------------------
(* Claims on construction, validation and the value generators *)

AllSpace(path) == \A i \in 1..Len(path) : path[i] \in {" ", "\t", "\n"}

InvertedRange(col) ==
    /\ col.min_value # None
    /\ col.max_value # None
    /\ col.min_value[1] >= col.max_value[1]

\* the value, in thousandths
MilliOf(val) == IF val.t = "int" THEN val.v * 1000 ELSE val.v

\* C2: every value an Integer or Float generator returns lies between
\* (min_value if set, else 0) and (max_value if set, else 1000).
C2_ValueWithinBounds ==
    (value.ok /\ value.col[1].data_type \in {"integer", "float"}) =>
        LET col == value.col[1]
            lo == IF col.min_value # None THEN col.min_value[1] ELSE 0
            hi == IF col.max_value # None THEN col.max_value[1] ELSE 1000 * 1000
        IN  lo <= MilliOf(value.val[1]) /\ MilliOf(value.val[1]) <= hi

\* C3: a Column Specification with min_value >= max_value cannot be
\* constructed, so no File Specification holds such a column.
C3_InvertedRangeRejected ==
    /\ (built.model = "ColumnConfig" /\ InvertedRange(built.input[1])) => ~built.ok
    /\ (built.model = "FileConfig" /\ built.ok) =>
          \A i \in 1..Len(built.obj[1].columns) :
              ~InvertedRange(built.obj[1].columns[i])

\* the File Specification inputs the claim says construction refuses
RefusedFile(in) ==
    \/ in.num_rows < 1 \/ in.num_rows > 1000000
    \/ in.num_columns < 1 \/ in.num_columns > 100
    \/ Len(in.columns) # in.num_columns
    \/ \E i \in 1..Len(in.columns) :
          in.columns[i].text_length # None /\ in.columns[i].text_length[1] <= 0
    \/ AllSpace(in.output_path)
    \/ in.file_format \notin {"csv", "json", "xml", "txt", "excel"}

\* C4: construction fails, and yields no object, for every out-of-range
\* row_count, column_count or batch_size, a column list whose length is not
\* column_count, a non-positive text_length, a blank output_path or an
\* unknown format; a constructed File Specification has len(columns) ==
\* column_count.
C4_ConstructionRejects ==
    /\ (/\ built.model = "ColumnConfig"
        /\ built.input[1].text_length # None
        /\ built.input[1].text_length[1] <= 0) => (~built.ok /\ built.obj = <<>>)
    /\ (built.model = "FileConfig" /\ RefusedFile(built.input[1])) =>
          (~built.ok /\ built.obj = <<>>)
    /\ (/\ built.model = "GenerationRequest"
        /\ \/ RefusedFile(built.input[1].config)
           \/ built.input[1].batch_size < 100
           \/ built.input[1].batch_size > 10000) => (~built.ok /\ built.obj = <<>>)
    /\ (built.model = "FileConfig" /\ built.ok) =>
          Len(built.obj[1].columns) = built.obj[1].num_columns
    /\ (built.model = "GenerationRequest" /\ built.ok) =>
          Len(built.obj[1].config.columns) = built.obj[1].config.num_columns

\* a File Specification refused only because its column list has the wrong length
C4_Witness ==
    /\ built.model = "FileConfig"
    /\ ~built.ok
    /\ built.errs = {"columns"}
    /\ Len(built.input[1].columns) = 2
    /\ built.input[1].num_columns = 1

Messages(list) == {list[i] : i \in 1..Len(list)}

\* C10: validate returns one message for every failing rule (construction
\* re-check, row ceiling, column ceiling, extension mismatch), all of them in
\* one call, and the empty list when no rule fails; format csv with a path
\* ending in .txt yields the extension-mismatch message.
C10_ValidateCollectsAll ==
    errors.config # <<>> =>
        LET c == errors.config[1]
            msgs == Messages(errors.list)
        IN  /\ (MSG_PYDANTIC \in msgs) <=> ~FileConfig(c).ok
            /\ (MSG_ROWS \in msgs) <=> c.num_rows > 1000000
            /\ (MSG_COLUMNS \in msgs) <=> c.num_columns > 100
            /\ (MSG_EXTENSION \in msgs) <=>
                  Lower(PathSuffix(c.output_path)) # <<".">> \o FormatChars(c.file_format)
            /\ Cardinality(msgs) = Len(errors.list)
            /\ (c.file_format = "csv" /\ c.output_path = <<"o", ".", "t", "x", "t">>)
                  => MSG_EXTENSION \in msgs

\* a configuration that breaks all four rules, answered with four messages
C10_Witness ==
    /\ errors.config # <<>>
    /\ errors.config[1].num_rows > 1000000
    /\ errors.config[1].num_columns > 100
    /\ Messages(errors.list) = {MSG_PYDANTIC, MSG_ROWS, MSG_COLUMNS, MSG_EXTENSION}

----------------------------------------------------------------------------
(* Claims on generate_test_data and the writers *)

ColumnNames(config) == {config.columns[i].name : i \in 1..Len(config.columns)}

WriterHanded == pc = "write" \/ \E i \in 1..Len(trace) : trace[i].step = "write"

\* C1: the row sequence handed to the writer has exactly row_count rows and
\* the keys of every row are the column names.
C1_RowCountAndKeys ==
    (request # <<>> /\ WriterHanded) =>
        /\ Len(all_data) = request[1].config.num_rows
        /\ \A i \in 1..Len(trace) :
              trace[i].step = "write" => trace[i].hi = request[1].config.num_rows
        /\ \A i \in 1..Len(all_data) :
              DictKeys(all_data[i]) = ColumnNames(request[1].config)

\* a run of three batches (201 rows by 100) that returned
C1_Witness ==
    /\ pc = "idle"
    /\ result.ok
    /\ request[1].batch_size = 100
    /\ Len(all_data) = 201

\* C5: two generate calls with the same seeded request leave the same output
\* file.
C5_SameSeedSameOutput ==
    (/\ pc = "idle"
     /\ calls = <<"generate_ok", "generate_ok">>
     /\ request[1].seed # None) =>
        fs.files[request[1].config.output_path]
            = entry.fs.files[request[1].config.output_path]

\* the sources the first draw of the current call is taken from
SourcesAtFirstDraw ==
    Sources(IF request[1].seed # None THEN (3 * request[1].seed[1] + 1) % RngMod
            ELSE entry.rng,
            entry.fakerRng, entry.osRng)

\* C6: whatever the batch size, the accumulated rows are those of one row
\* builder call on the whole range [0, row_count) from the same draws (and,
\* between two batches, those of one call on the range done so far).
C6_BatchingInvariant ==
    (request # <<>> /\ pc \in {"batch", "dispatch", "write", "return"}) =>
        LET done == IF pc = "batch" THEN batch_start ELSE request[1].config.num_rows
        IN  all_data = generate_batch(request[1].config, 0, done,
                                      SourcesAtFirstDraw).rows

\* 201 rows accumulated in three batches, about to be written
C6_Witness ==
    /\ pc = "write"
    /\ request[1].batch_size = 100
    /\ request[1].seed = None
    /\ Cardinality({i \in DOMAIN trace : trace[i].step = "batch"}) = 3
    /\ Len(all_data) = 201

\* C7: when validate(config) returns errors, generate produces no row, creates
\* no directory or file, and ends in an error.
C7_InvalidConfigNotGenerated ==
    (/\ request # <<>>
     /\ calls # <<>>
     /\ validate_configuration(request[1].config) # <<>>) =>
        /\ all_data = <<>>
        /\ fs = entry.fs
        /\ pc # "return"
        /\ pc = "idle" => ~result.ok

StepOfSite(at) ==
    CASE at = "mkdir" -> "mkdir"
      [] at \in {"create_generator", "generate"} -> "batch"
      [] at = "create_file_generator" -> "dispatch"
      [] at \in {"write", "no_data"} -> "write"

C9_EmptyDatasetNoFile ==
    (result.by = "writer" /\ result.given = 0) =>
        /\ ~result.ok
        /\ result.exc = <<[type |-> "ValueError", at |-> "no_data", cause |-> <<>>]>>
        /\ fs = entry.fs

\* the JSON writer was given no rows while its output file existed
C9_Witness ==
    /\ result.by = "writer"
    /\ result.given = 0
    /\ request[1].config.file_format = "json"
    /\ request[1].config.output_path \in DOMAIN fs.files
    /\ fs.files[request[1].config.output_path] = OldContent

----------------------------------------------------------------------------
(* The row builder called directly *)

\* column lists given to the row builder: two generators on the seeded
\* source, two on the unseeded ones, two columns sharing a name, and a text
\* column Faker.text refuses after a column that draws
BatchColumnLists ==
    {<<Column("id", "integer", Some(ToMilli(1)), Some(ToMilli(5)), None),
       Column("x", "float", None, None, None)>>,
     <<Column("u", "uuid", None, None, None),
       Column("n", "name", None, None, None)>>,
     <<Column("id", "integer", Some(ToMilli(1)), Some(ToMilli(5)), None),
       Column("id", "uuid", None, None, None)>>,
     <<Column("b", "boolean", None, None, None),
       Column("t", "text", None, None, Some(FAKER_MIN_TEXT - 1))>>}

BatchConfigs ==
    {File("csv", MaxBatchRow, Len(columns), columns, OutCsv) :
        columns \in BatchColumnLists}

\* service._generate_batch(config, start_row, end_row)
BatchCall ==
    /\ Idle
    /\ \E input \in BatchConfigs, start_row \in 0..MaxBatchRow,
          end_row \in 0..MaxBatchRow :
          LET c == FileConfig(input)
              src == Sources(rng, fakerRng, osRng)
              r == generate_batch(c.obj[1], start_row, end_row, src)
          IN  /\ c.ok
              /\ batch' = [config |-> c.obj, start_row |-> start_row,
                           end_row |-> end_row, src |-> <<src>>, ok |-> r.ok,
                           rows |-> r.rows, draws |-> r.draws]
              /\ rng' = r.src.rng
              /\ fakerRng' = r.src.fakerRng
              /\ osRng' = r.src.osRng
    /\ UNCHANGED <<built, errors, value, pipeline, made, gui, cli>>

\* the row builder never touches the file system: one is enough
InitBatch ==
    /\ Init
    /\ fs = NoFs

NextBatch == BatchCall

SpecBatch == InitBatch /\ [][NextBatch]_vars

----------------------------------------------------------------------------
(* The column-row manager: MainWindow (src/src/gui/main_window.py) and      *)
(* ColumnManagerLogic (src/tests/test_column_management_logic.py)           *)
(*                                                                         *)
(* A widget is known by its id <<serial of its row, position in the row>>; *)
(* widgets maps every widget created so far to its value and to whether    *)
(* destroy() was called on it.                                             *)

\* widgets of one column row: name, data type, min value, max value, text length
ROW_WIDGETS == 5
\* header labels created at a time
HEADER_LABELS == 5
DEFAULT_ROWS == "100"
DEFAULT_COLUMNS == 5
DEFAULT_FILENAME == "test_data"

\* service.get_available_data_types(): [dt.value for dt in get_available_types()]
get_available_data_types == get_available_types

\* the values a new column row holds
RowDefaults(col_idx) ==
    <<"Column_" \o ToString(col_idx + 1), get_available_data_types[1], "", "", "">>

RowsMade(ws) == Cardinality(DOMAIN ws) \div ROW_WIDGETS

\* create_column_row(col_idx): five new widgets holding the defaults
create_column_row(ws, col_idx) ==
    LET serial == RowsMade(ws) + 1
        ids == [f \in 1..ROW_WIDGETS |-> <<serial, f>>]
        new == [w \in {ids[f] : f \in 1..ROW_WIDGETS} |->
                   [value |-> RowDefaults(col_idx)[w[2]], destroyed |-> FALSE]]
    IN  [row |-> ids, widgets |-> new @@ ws]

RECURSIVE AddRows(_, _, _, _)
\* for col_idx in range(i, n): create_column_row(col_idx), appended to the list
AddRows(cw, ws, i, n) ==
    IF i >= n THEN [column_widgets |-> cw, widgets |-> ws]
    ELSE LET r == create_column_row(ws, i)
         IN  AddRows(Append(cw, r.row), r.widgets, i + 1, n)

\* the position (from 1) that the Python index i denotes in a list of m
\* items, 0 when it raises IndexError
ListIndex(i, m) ==
    IF 0 <= i /\ i < m THEN i + 1
    ELSE IF i < 0 /\ -m <= i THEN m + i + 1
    ELSE 0

\* lst[:n]
SliceTo(lst, n) ==
    LET m == Len(lst)
        k == IF n >= m THEN m ELSE IF n >= 0 THEN n ELSE IF m + n > 0 THEN m + n ELSE 0
    IN  SubSeq(lst, 1, k)

\* for i in range(n, m): for widget in column_widgets[i]: widget.destroy()
\* then column_widgets = column_widgets[:n]; an IndexError leaves at the
\* first iteration, before any widget is destroyed
RemoveRows(cw, ws, n) ==
    LET m == Len(cw)
        gone == {ListIndex(i, m) : i \in n..(m - 1)}
        ids == UNION {{cw[p][f] : f \in 1..ROW_WIDGETS} : p \in gone \ {0}}
    IN  IF ListIndex(n, m) = 0
        THEN [column_widgets |-> cw, widgets |-> ws, new_list |-> FALSE,
              raised |-> TRUE]
        ELSE [column_widgets |-> SliceTo(cw, n),
              widgets |-> [w \in DOMAIN ws |->
                              IF w \in ids THEN [ws[w] EXCEPT !.destroyed = TRUE]
                              ELSE ws[w]],
              new_list |-> TRUE, raised |-> FALSE]

update_columns_rebuild(cw, ws, new_count) ==
    LET cleared == RemoveRows(cw, ws, 0)
        added == AddRows(<<>>, cleared.widgets, 0, new_count)
    IN  [column_widgets |-> added.column_widgets, widgets |-> added.widgets,
         new_list |-> TRUE, raised |-> FALSE]

\* ColumnManagerLogic.update_columns(new_count)
update_columns(cw, ws, new_count) ==
    LET current_count == Len(cw)
    IN  IF new_count > current_count
        THEN LET r == AddRows(cw, ws, current_count, new_count)
             IN  [column_widgets |-> r.column_widgets, widgets |-> r.widgets,
                  new_list |-> FALSE, raised |-> FALSE]
        ELSE IF new_count < current_count
        THEN RemoveRows(cw, ws, new_count)
        ELSE [column_widgets |-> cw, widgets |-> ws, new_list |-> FALSE,
              raised |-> FALSE]

\* int(text), for the texts typed into the column count entry
ParseInt(text) ==
    LET hits == {k \in (-1)..9 : ToString(k) = text}
    IN  IF hits = {} THEN [ok |-> FALSE, n |-> 0]
        ELSE [ok |-> TRUE, n |-> CHOOSE k \in hits : TRUE]

\* MainWindow.create_column_widgets(), columns_var holding text
create_column_widgets(cw, ws, lb, text) ==
    LET parsed == ParseInt(text)
        num_columns == IF parsed.ok THEN parsed.n ELSE DEFAULT_COLUMNS
        current_columns == Len(cw)
        headed == IF current_columns = 0 THEN lb + HEADER_LABELS ELSE lb
        r == update_columns(cw, ws, num_columns)
    IN  [column_widgets |-> r.column_widgets, widgets |-> r.widgets,
         labels |-> headed, new_list |-> r.new_list, raised |-> r.raised,
         n |-> num_columns]

\* what the user types into a widget of a column row
EditValues == {"id"}
\* what the user types into the column count entry
CountTexts == {ToString(k) : k \in (-1)..MaxCount} \cup {""}

History(op, n, new_list, raised) ==
    [op |-> op, n |-> n, column_widgets |-> column_widgets, widgets |-> widgets,
     labels |-> labels, new_list |-> new_list, raised |-> raised]

\* the rows asked for can be created within the bound
CanMake(n) ==
    RowsMade(widgets) + (IF n > Len(column_widgets) THEN n - Len(column_widgets) ELSE 0)
        <= MaxRowsMade

\* ColumnManagerLogic()
NewManager ==
    /\ subject = ""
    /\ subject' = "ColumnManagerLogic"
    /\ column_widgets' = <<>>
    /\ UNCHANGED <<cli, core, made, batch, widgets, labels, rows_var, columns_var,
                   filename_var, last>>

\* MainWindow(): the entries get their defaults and create_columns_section
\* calls create_column_widgets
NewWindow ==
    /\ subject = ""
    /\ subject' = "MainWindow"
    /\ rows_var' = DEFAULT_ROWS
    /\ columns_var' = ToString(DEFAULT_COLUMNS)
    /\ filename_var' = DEFAULT_FILENAME
    /\ LET r == create_column_widgets(<<>>, NoWidgets, 0, ToString(DEFAULT_COLUMNS))
       IN  /\ column_widgets' = r.column_widgets
           /\ widgets' = r.widgets
           /\ labels' = r.labels
    /\ UNCHANGED <<cli, core, made, batch, last>>

\* manager.update_columns(new_count)
UpdateColumns ==
    /\ subject = "ColumnManagerLogic"
    /\ \E new_count \in (-1)..MaxCount :
          LET r == update_columns(column_widgets, widgets, new_count)
          IN  /\ CanMake(new_count)
              /\ column_widgets' = r.column_widgets
              /\ widgets' = r.widgets
              /\ last' = History("update", new_count, r.new_list, r.raised)
    /\ UNCHANGED <<cli, core, made, batch, subject, labels, rows_var, columns_var,
                   filename_var>>

\* the user types into the column count entry: <KeyRelease> calls
\* on_columns_change, which calls create_column_widgets
OnColumnsChange ==
    /\ subject = "MainWindow"
    /\ \E text \in CountTexts :
          LET r == create_column_widgets(column_widgets, widgets, labels, text)
          IN  /\ CanMake(r.n)
              /\ r.labels <= MaxHeaders * HEADER_LABELS
              /\ columns_var' = text
              /\ column_widgets' = r.column_widgets
              /\ widgets' = r.widgets
              /\ labels' = r.labels
              /\ last' = History("update", r.n, r.new_list, r.raised)
    /\ UNCHANGED <<cli, core, made, batch, subject, rows_var, filename_var>>

\* manager.set_column_data(col_idx, field_idx, value), or the user typing
\* into a widget of a column row: widget.delete(0, "end"); widget.insert(0, value)
SetColumnData ==
    /\ subject # ""
    /\ Cardinality({w \in DOMAIN widgets : widgets[w].value \in EditValues}) < MaxEdits
    /\ \E col_idx \in 0..(Len(column_widgets) - 1), field_idx \in 0..(ROW_WIDGETS - 1),
          text \in EditValues :
          LET w == column_widgets[col_idx + 1][field_idx + 1]
          IN  /\ subject = "MainWindow" => ~widgets[w].destroyed
              /\ widgets[w].value # text
              /\ widgets' = [widgets EXCEPT ![w].value = text]
    /\ last' = History("edit", 0, FALSE, FALSE)
    /\ UNCHANGED <<cli, core, made, batch, subject, column_widgets, labels, rows_var,
                   columns_var, filename_var>>

\* the user types into the row count entry and into the filename entry
TypeEntry ==
    /\ subject = "MainWindow"
    /\ rows_var # "7"
    /\ rows_var' = "7"
    /\ filename_var' = "out"
    /\ last' = History("type", 0, FALSE, FALSE)
    /\ UNCHANGED <<cli, core, made, batch, subject, column_widgets, widgets, labels,
                   columns_var>>

\* MainWindow.clear_configuration()
ClearConfiguration ==
    /\ subject = "MainWindow"
    /\ rows_var' = DEFAULT_ROWS
    /\ columns_var' = ToString(DEFAULT_COLUMNS)
    /\ filename_var' = DEFAULT_FILENAME
    /\ LET r == create_column_widgets(column_widgets, widgets, labels,
                                      ToString(DEFAULT_COLUMNS))
       IN  /\ CanMake(r.n)
           /\ r.labels <= MaxHeaders * HEADER_LABELS
           /\ column_widgets' = r.column_widgets
           /\ widgets' = r.widgets
           /\ labels' = r.labels
           /\ last' = History("clear", r.n, r.new_list, r.raised)
    /\ UNCHANGED <<cli, core, made, batch, subject>>

NextGui ==
    \/ NewManager
    \/ NewWindow
    \/ UpdateColumns
    \/ OnColumnsChange
    \/ SetColumnData
    \/ TypeEntry
    \/ ClearConfiguration

SpecGui == InitModel /\ [][NextGui]_vars

----------------------------------------------------------------------------
(* The command line: CLIGenerator (src/src/cli/cli_generator.py)            *)
(*                                                                         *)
(* cli.stage: "" before run, "generate" from the construction of the       *)
(* request until generate_test_data has returned or raised, "returned"     *)
(* with cli.code the value run returned, "exited" when sys.exit(1) left     *)
(* run with SystemExit, which "except Exception" does not catch.           *)

\* str.endswith
EndsWith(s, suffix) ==
    /\ Len(suffix) <= Len(s)
    /\ SubSeq(s, Len(s) - Len(suffix) + 1, Len(s)) = suffix

\* the output path run builds: the argument, with "." + format appended
\* unless the argument ends with it
cli_output_path(output, format) ==
    IF ~EndsWith(output, <<".">> \o FormatChars(format))
    THEN output \o <<".">> \o FormatChars(format)
    ELSE output

\* type_str.lower(), for the type names given on the command line
LowerType(type_str) ==
    CASE type_str = "INTEGER" -> "integer"
      [] type_str = "Boolean" -> "boolean"
      [] OTHER -> type_str

\* (lst * (max_len // len(lst) + 1))[:max_len]
Cycle(lst, max_len) == [i \in 1..max_len |-> lst[((i - 1) % Len(lst)) + 1]]

\* outcome of a parse: the list, or sys.exit(1)
Parsed(lst) == [exit |-> FALSE, list |-> lst]
ParseExit == [exit |-> TRUE, list |-> <<>>]

\* CLIGenerator._parse_column_types
parse_column_types(types_str, columns) ==
    IF types_str = None
    THEN Parsed(SubSeq(<<"name", "email", "phone", "company", "job">>, 1,
                       Min(columns, 5)))
    ELSE IF \E i \in 1..Len(types_str[1]) : LowerType(types_str[1][i]) \notin DataType
    THEN ParseExit
    ELSE Parsed([i \in 1..Len(types_str[1]) |-> LowerType(types_str[1][i])])

\* CLIGenerator._parse_numeric_values: float(val_str), for the whole numbers
\* the exploration gives
parse_numeric_values(values_str, columns) ==
    IF values_str = None THEN Parsed([i \in 1..columns |-> None])
    ELSE IF \E i \in 1..Len(values_str[1]) :
               values_str[1][i] # "none" /\ ~ParseInt(values_str[1][i]).ok
    THEN ParseExit
    ELSE Parsed([i \in 1..Len(values_str[1]) |->
                    IF values_str[1][i] = "none" THEN None
                    ELSE Some(ToMilli(ParseInt(values_str[1][i]).n))])

\* CLIGenerator._parse_text_lengths: int(len_str)
parse_text_lengths(lengths_str, columns) ==
    IF lengths_str = None THEN Parsed([i \in 1..columns |-> None])
    ELSE IF \E i \in 1..Len(lengths_str[1]) :
               lengths_str[1][i] # "none" /\ ~ParseInt(lengths_str[1][i]).ok
    THEN ParseExit
    ELSE Parsed([i \in 1..Len(lengths_str[1]) |->
                    IF lengths_str[1][i] = "none" THEN None
                    ELSE Some(ParseInt(lengths_str[1][i]).n)])

\* the padding and the loop of _create_column_configs, the parsers done:
\* kind is "ok" with the columns, or "raise" (IndexError, ValidationError)
build_column_configs(n, names, types, mins, maxs, lens) ==
    LET lengths == {Len(types), Len(names), Len(mins), Len(maxs), Len(lens)}
        max_len == CHOOSE m \in lengths : \A k \in lengths : k <= m
    IN  IF max_len < n THEN [kind |-> "raise", columns |-> <<>>]
        ELSE LET built_columns ==
                     [i \in 1..n |->
                        ColumnConfig(Column(Cycle(names, max_len)[i],
                                            Cycle(types, max_len)[i],
                                            Cycle(mins, max_len)[i],
                                            Cycle(maxs, max_len)[i],
                                            Cycle(lens, max_len)[i]))]
             IN  IF \E i \in 1..n : ~built_columns[i].ok
                 THEN [kind |-> "raise", columns |-> <<>>]
                 ELSE [kind |-> "ok", columns |-> [i \in 1..n |-> built_columns[i].obj[1]]]

\* the parsers of _create_column_configs: a sys.exit(1) in one of them ends it
parsed_column_configs(n, names, types, mins, maxs, lens) ==
    IF types.exit \/ mins.exit \/ maxs.exit \/ lens.exit
    THEN [kind |-> "exit", columns |-> <<>>]
    ELSE build_column_configs(n, names, types.list, mins.list, maxs.list, lens.list)

\* CLIGenerator._create_column_configs: kind is "ok" with the columns,
\* "exit" (sys.exit in a parser) or "raise" (IndexError, ValidationError)
create_column_configs(args) ==
    parsed_column_configs(
        args.columns,
        IF args.column_names # None THEN args.column_names[1]
        ELSE [i \in 1..args.columns |-> "Column_" \o ToString(i)],
        parse_column_types(args.column_types, args.columns),
        parse_numeric_values(args.min_values, args.columns),
        parse_numeric_values(args.max_values, args.columns),
        parse_text_lengths(args.text_lengths, args.columns))

\* where run stands after its lines up to the construction of the request
RunOutcome(stage, code, output_path, file_config, errs, req) ==
    [stage |-> stage, code |-> code, output_path |-> output_path,
     built |-> file_config, validated |-> errs, request |-> req]

\* run, the configuration valid: --validate-only, or the request
run_validated(args, output_path, file_config, errs, req) ==
    IF args.validate_only
    THEN RunOutcome("returned", 0, output_path, <<file_config>>, <<errs>>, <<>>)
    ELSE IF ~req.ok
    THEN RunOutcome("returned", 1, output_path, <<file_config>>, <<errs>>, <<>>)
    ELSE RunOutcome("generate", -1, output_path, <<file_config>>, <<errs>>, req.obj)

run_configured_ignore_errors(args, output_path, file_config, errs) ==
    run_validated(args, output_path, file_config, errs,
                  GenerationRequest(Request(file_config, args.seed, args.batch_size)))

\* run, the file configuration built: errors = validate_configuration(...)
run_configured(args, output_path, file_config, errs) ==
    IF errs # <<>>
    THEN RunOutcome("returned", 1, output_path, <<file_config>>, <<errs>>, <<>>)
    ELSE run_validated(args, output_path, file_config, errs,
                       GenerationRequest(Request(file_config, args.seed,
                                                 args.batch_size)))

\* run, the output path corrected: FileConfig(...)
run_file(args, output_path, file_config) ==
    IF ~file_config.ok
    THEN RunOutcome("returned", 1, output_path, <<>>, <<>>, <<>>)
    ELSE run_configured(args, output_path, file_config.obj[1],
                        validate_configuration(file_config.obj[1]))

\* run, the basic parameters in range: the columns, then the output path
run_columns(args, columns) ==
    IF columns.kind = "exit" THEN RunOutcome("exited", 1, <<>>, <<>>, <<>>, <<>>)
    ELSE IF columns.kind = "raise"
    THEN RunOutcome("returned", 1, <<>>, <<>>, <<>>, <<>>)
    ELSE run_file(args, cli_output_path(args.output, args.format),
                  FileConfig(File(args.format, args.rows, args.columns,
                                  columns.columns,
                                  cli_output_path(args.output, args.format))))

\* CLIGenerator.run, from parse_args to the construction of the request
CLIGenerator_run(args) ==
    IF args.rows <= 0 \/ args.columns <= 0
    THEN RunOutcome("returned", 1, <<>>, <<>>, <<>>, <<>>)
    ELSE IF args.rows > 1000000 \/ args.columns > 100
    THEN RunOutcome("returned", 1, <<>>, <<>>, <<>>, <<>>)
    ELSE run_columns(args, create_column_configs(args))

\* the --output arguments: "o", "o.csv", "o.CSV", ".csv", "" and "d/"
CliOutputs ==
    {Stem, OutCsv, WithExt(Stem, <<"C", "S", "V">>), <<".", "c", "s", "v">>, <<>>,
     <<"d", "/">>}

\* python cli.py --output o --columns 2 --rows 1, the other options at their
\* defaults but for the columns, which the parser defaults to 5
CliDefaults ==
    [format |-> "csv", rows |-> 1, columns |-> 2, output |-> Stem,
     column_types |-> None, column_names |-> None, min_values |-> None,
     max_values |-> None, text_lengths |-> None, seed |-> None,
     batch_size |-> DEFAULT_BATCH_SIZE, validate_only |-> FALSE]

\* every format, output, --validate-only and seed on the defaults; and the
\* defaults with one other option changed
CliArgs ==
    {[CliDefaults EXCEPT !.format = f, !.output = o, !.validate_only = v, !.seed = sd] :
        f \in FileFormats, o \in CliOutputs, v \in BOOLEAN, sd \in {None, Some(0)}}
    \cup {[CliDefaults EXCEPT !.rows = r, !.validate_only = v] :
            r \in {0, -1, MAX_ROWS + 1}, v \in BOOLEAN}
    \cup {[CliDefaults EXCEPT !.columns = c, !.validate_only = v] :
            c \in {0, 1, 6, MAX_COLUMNS + 1}, v \in BOOLEAN}
    \cup {[CliDefaults EXCEPT !.column_types = Some(t), !.column_names = nm] :
            t \in {<<"integer">>, <<"INTEGER", "Boolean">>, <<"bogus">>},
            nm \in {None, Some(<<"id">>)}}
    \cup {[CliDefaults EXCEPT !.text_lengths = Some(t), !.validate_only = v] :
            t \in {<<"0">>, <<"7">>, <<"none">>, <<"abc">>}, v \in BOOLEAN}
    \cup {[CliDefaults EXCEPT !.min_values = Some(lo), !.max_values = Some(hi),
                              !.column_types = Some(<<"integer">>)] :
            lo \in {<<"1">>, <<"x">>}, hi \in {<<"5">>, <<"none">>}}
    \cup {[CliDefaults EXCEPT !.batch_size = b, !.validate_only = v] :
            b \in {MIN_BATCH_SIZE - 1, MAX_BATCH_SIZE}, v \in BOOLEAN}
    \cup {[CliDefaults EXCEPT !.column_types = Some(<<"integer">>),
                              !.column_names = Some(<<"id">>),
                              !.min_values = Some(<<"1">>), !.max_values = Some(<<"5">>),
                              !.text_lengths = Some(<<"none">>)]}

\* cli.run(args), up to the call of generate_test_data
CliRun ==
    /\ Idle
    /\ cli = NoCli
    /\ \E args \in CliArgs :
          LET r == CLIGenerator_run(args)
          IN  /\ cli' = [stage |-> r.stage, args |-> <<args>>,
                         output_path |-> r.output_path, built |-> r.built,
                         code |-> r.code]
              /\ errors' = IF r.validated = <<>> THEN errors
                           ELSE [config |-> r.built, list |-> r.validated[1]]
              /\ request' = r.request
    /\ UNCHANGED <<built, value, rng, fakerRng, osRng, fs, pc, all_data, batch_start,
                   exc, result, trace, entry, calls, made, batch, gui>>

\* output_file = self.service.generate_test_data(request): the call
CliGenerate ==
    /\ cli.stage = "generate"
    /\ result.by = ""
    /\ GenerateCall

\* generate_test_data returned or raised: the file size is printed and run
\* returns 0, or "except Exception" returns 1
CliFinish ==
    /\ Idle
    /\ cli.stage = "generate"
    /\ result.by = "generate"
    /\ cli' = [cli EXCEPT !.stage = "returned",
                          !.code = IF result.ok /\ result.path[1] \in DOMAIN fs.files
                                   THEN 0 ELSE 1]
    /\ UNCHANGED <<built, errors, value, rng, fakerRng, osRng, pipeline, made, batch, gui>>

NextCli ==
    \/ CliRun
    \/ CliGenerate
    \/ SeedStep
    \/ MkdirStep
    \/ BatchStep
    \/ DispatchStep
    \/ WriteStep
    \/ ReturnStep
    \/ ExceptStep
    \/ CliFinish

SpecCli == InitModel /\ [][NextCli]_vars

----------------------------------------------------------------------------
(* Claims on the factories and the row builder *)

Elements(seq) == {seq[i] : i \in 1..Len(seq)}

\* C11: the generator factory returns a generator for each of the 15 semantic
\* types and lists exactly those 15; the writer factory returns a writer for
\* each of csv, json, xml, txt and excel; any other type or format is refused
\* with the dispatch error naming the value asked for, the file system is
\* untouched, and this holds again for every call made afterwards.
C11_RegistriesTotal ==
    /\ made.by # "" => made.fs = fs
    /\ made.by = "create_generator" =>
          IF made.asked \in {"name", "email", "phone", "address", "company", "job",
                             "date", "integer", "float", "boolean", "text", "url",
                             "ip_address", "uuid", "credit_card"}
          THEN made.ok /\ made.cls # "" /\ made.exc = <<>>
          ELSE /\ ~made.ok /\ made.cls = ""
               /\ made.exc = <<[type |-> "ValueError", at |-> "create_generator",
                                cause |-> <<>>]>>
               /\ made.message[1].arg = made.asked
    /\ made.by = "get_available_types" =>
          /\ Len(made.listed) = 15
          /\ Elements(made.listed) =
                {"name", "email", "phone", "address", "company", "job", "date",
                 "integer", "float", "boolean", "text", "url", "ip_address",
                 "uuid", "credit_card"}
    /\ made.by = "create_file_generator" =>
          IF made.asked \in {"csv", "json", "xml", "txt", "excel"}
          THEN made.ok /\ made.cls # "" /\ made.exc = <<>>
          ELSE /\ ~made.ok /\ made.cls = ""
               /\ made.exc = <<[type |-> "ValueError", at |-> "create_file_generator",
                                cause |-> <<>>]>>
               /\ made.message[1].arg = made.asked

\* an unregistered format was refused while output files existed
C11_Witness ==
    /\ made.by = "create_file_generator"
    /\ made.asked = "yaml"
    /\ ~made.ok
    /\ made.message = <<[text |-> "Unsupported file format: ", arg |-> "yaml"]>>
    /\ DOMAIN fs.files # {}

\* the k-th pair of [lo, hi) x 1..n in row-major order
CellOf(k, lo, n) == <<lo + (k - 1) \div n, ((k - 1) % n) + 1>>

\* C12: the row builder calls the value generators once per (row index,
\* column) pair, rows ascending and columns in config.columns order within a
\* row; a row depends on the earlier rows only through the sources they
\* left; and the row of index i maps each column's name to the value of that
\* column's draw.
C12_DrawsOncePerCell ==
    batch.config # <<>> =>
        LET config == batch.config[1]
            n == Len(config.columns)
            lo == batch.start_row
            count == IF batch.end_row > lo THEN batch.end_row - lo ELSE 0
        IN  /\ \A k \in 1..Len(batch.draws) : batch.draws[k] = CellOf(k, lo, n)
            /\ batch.ok =>
                  /\ Len(batch.draws) = count * n
                  /\ Len(batch.rows) = count
                  /\ \A r \in 1..count :
                        LET before == generate_batch(config, lo, lo + r - 1,
                                                     batch.src[1]).src
                        IN  \A j \in 1..n :
                              LET col == config.columns[j]
                                  left == [config EXCEPT !.columns = SubSeq(@, 1, j - 1)]
                                  at == generate_batch(left, lo + r - 1, lo + r,
                                                       before).src
                                  drawn == Generate(create_generator(col.data_type).cls,
                                                    col, at).val[1]
                              IN  /\ DictHas(batch.rows[r], col.name)
                                  /\ DictGet(batch.rows[r], col.name) = drawn
                  /\ \A r \in 1..count :
                        DictKeys(batch.rows[r]) = ColumnNames(config)

----------------------------------------------------------------------------
(* Claims on the content of the files *)

\* a writer has just returned: called directly, or by generate
Written ==
    /\ request # <<>>
    /\ \/ pc = "return"
       \/ pc = "idle" /\ result.ok /\ result.by \in {"generate", "writer"}

WrittenFile == fs.files[request[1].config.output_path]

ScenarioA ==
    [file_format |-> "csv", num_rows |-> 5, num_columns |-> 1,
     columns |-> <<[name |-> "id", data_type |-> "integer", min_value |-> <<1000>>,
                    max_value |-> <<5000>>, text_length |-> <<>>]>>,
     output_path |-> <<"o", ".", "c", "s", "v">>]

\* C13: the CSV file is a header record of the column names in config.columns
\* order followed by one record per row in row order, each record's fields in
\* config.columns order, empty where the row lacks the key; for csv, 5 rows
\* and one Integer column id in [1, 5], generate leaves the header id and 5
\* records that are integers between 1 and 5.
C13_CsvLayout ==
    (Written /\ request[1].config.file_format = "csv") =>
        LET config == request[1].config
            n == Len(config.columns)
            records == WrittenFile.payload
        IN  /\ WrittenFile.format = "csv"
            /\ Len(records) = Len(all_data) + 1
            /\ records[1] = [j \in 1..n |-> config.columns[j].name]
            /\ \A i \in 1..Len(all_data) :
                  /\ Len(records[i + 1]) = n
                  /\ \A j \in 1..n :
                        records[i + 1][j] =
                            IF config.columns[j].name \in DictKeys(all_data[i])
                            THEN <<DictGet(all_data[i], config.columns[j].name)>>
                            ELSE <<>>
            /\ (config = ScenarioA /\ result.by = "generate") =>
                  /\ Len(records) = 6
                  /\ records[1] = <<"id">>
                  /\ \A i \in 2..6 :
                        /\ records[i][1][1].t = "int"
                        /\ 1 <= records[i][1][1].v /\ records[i][1][1].v <= 5

\* the CSV writer was handed a row lacking a key and then a full row
C13_Witness ==
    /\ Written
    /\ result.by = "writer"
    /\ request[1].config.file_format = "csv"
    /\ Len(all_data) = 2
    /\ \E j \in 1..Len(request[1].config.columns) :
          request[1].config.columns[j].name \notin DictKeys(all_data[1])
    /\ WrittenFile.payload[2][1] = <<>>

\* C14: the text file generate leaves has row_count + 2 lines: the column
\* names joined by " | ", a line of as many dashes as the header has
\* characters, then one line per row holding the row's fields in
\* config.columns order.
C14_TxtLineCount ==
    (/\ Written
     /\ result.by # "writer"
     /\ request[1].config.file_format = "txt") =>
        LET config == request[1].config
            lines == WrittenFile.payload
        IN  /\ WrittenFile.format = "txt"
            /\ Len(lines) = config.num_rows + 2
            /\ lines[2].dashes = Len(lines[1].header)
            /\ \A i \in 1..config.num_rows :
                  Len(lines[i + 2].joined) = Len(config.columns)
            /\ TxtLineCount(lines) = config.num_rows + 2

\* C15: the XML file holds one root element with one child per row, in row
\* order, and under each row element one child per entry of config.columns,
\* in that order, named after the column, its text the string form of the
\* row's value for that name, empty when the row lacks the key.
C15_XmlLayout ==
    (Written /\ request[1].config.file_format = "xml") =>
        LET config == request[1].config
            n == Len(config.columns)
        IN  /\ WrittenFile.format = "xml"
            /\ Len(WrittenFile.payload) = 1
            /\ LET rows == WrittenFile.payload[1].children
               IN  /\ Len(rows) = Len(all_data)
                   /\ \A i \in 1..Len(all_data) :
                         /\ Len(rows[i].children) = n
                         /\ \A j \in 1..n :
                               /\ rows[i].children[j].tag = config.columns[j].name
                               /\ rows[i].children[j].text =
                                     IF config.columns[j].name \in DictKeys(all_data[i])
                                     THEN <<DictGet(all_data[i], config.columns[j].name)>>
                                     ELSE <<>>

\* the XML writer was handed a row lacking a key and then a full row of two
\* columns
C15_Witness ==
    /\ Written
    /\ result.by = "writer"
    /\ request[1].config.file_format = "xml"
    /\ Len(request[1].config.columns) = 2
    /\ Len(all_data) = 2
    /\ request[1].config.columns[1].name \notin DictKeys(all_data[1])
    /\ WrittenFile.payload[1].children[1].children[1].text = <<>>

----------------------------------------------------------------------------
(* Claims on the specifications as inputs *)

\* C16: no step of generate, no validate call and no writer call changes a
\* field of the Generation Request, of its File Specification or of a Column
\* Specification, whether the call succeeds or fails.
C16_SpecificationsReadOnly == [][request # <<>> => request' = request]_vars

\* validate returned errors for the request and generate then failed on it
C16_Witness ==
    /\ request # <<>>
    /\ errors.config = <<request[1].config>>
    /\ errors.list # <<>>
    /\ pc = "idle"
    /\ result.by = "generate"
    /\ ~result.ok

\* C17: a Column Specification cannot be constructed with the empty string as
\* its name, so every constructed one has a non-empty name.
C17_NameNonEmpty ==
    /\ (built.model = "ColumnConfig" /\ built.input[1].name = "") => ~built.ok
    /\ (built.model = "ColumnConfig" /\ built.ok) => built.obj[1].name # ""

----------------------------------------------------------------------------
(* Claims on the column-row manager *)

Destroyed(ws) == {w \in DOMAIN ws : ws[w].destroyed}

WidgetsOf(row) == {row[f] : f \in 1..Len(row)}

\* C18: after an update from m rows to a count n >= 0 the manager holds n
\* rows; the first min(m, n) are the same widgets with the same data; for
\* n > m every new row i (from 0) is made of new widgets and is named
\* Column_{i+1}; for n < m the widgets destroyed by the update are those of
\* the rows n..m-1, and otherwise none is.
C18_UpdateKeepsPrefix ==
    (last.op \in {"update", "clear"} /\ last.n >= 0) =>
        LET m == Len(last.column_widgets)
            n == last.n
            k == IF m <= n THEN m ELSE n
        IN  /\ ~last.raised
            /\ Len(column_widgets) = n
            /\ \A i \in 1..k :
                  /\ column_widgets[i] = last.column_widgets[i]
                  /\ \A w \in WidgetsOf(column_widgets[i]) : widgets[w] = last.widgets[w]
            /\ \A i \in (m + 1)..n :
                  /\ Len(column_widgets[i]) = 5
                  /\ WidgetsOf(column_widgets[i]) \cap DOMAIN last.widgets = {}
                  /\ widgets[column_widgets[i][1]].value = "Column_" \o ToString(i)
                  /\ \A w \in WidgetsOf(column_widgets[i]) : ~widgets[w].destroyed
            /\ Destroyed(widgets) =
                  Destroyed(last.widgets) \cup
                  UNION {WidgetsOf(last.column_widgets[i]) : i \in (n + 1)..m}

\* a window of five rows, the first one renamed, was cut to two rows
C18_Witness ==
    /\ subject = "MainWindow"
    /\ last.op = "update"
    /\ last.n = 2
    /\ Len(last.column_widgets) = 5
    /\ Len(column_widgets) = 2
    /\ widgets[column_widgets[1][1]].value = "id"
    /\ widgets[last.column_widgets[5][1]].destroyed

\* C19: an update to the count the manager already has changes nothing: the
\* row list is the same object, the rows and widgets are the same with the
\* same data, and no widget is created or destroyed.
C19_SameCountNoChange ==
    (last.op = "update" /\ last.n = Len(last.column_widgets)) =>
        /\ ~last.new_list
        /\ column_widgets = last.column_widgets
        /\ widgets = last.widgets
        /\ labels = last.labels

\* C20: clear_configuration leaves rows = 100, columns = 5, filename =
\* test_data and five column rows that hold their defaults: name
\* Column_{i+1}, the first data type, empty min, max and text length.
C20_ClearRestoresDefaults ==
    last.op = "clear" =>
        /\ rows_var = "100"
        /\ columns_var = "5"
        /\ filename_var = "test_data"
        /\ Len(column_widgets) = 5
        /\ \A i \in 1..Len(column_widgets) :
              /\ widgets[column_widgets[i][1]].value = "Column_" \o ToString(i)
              /\ widgets[column_widgets[i][2]].value = "name"
              /\ \A f \in 3..5 : widgets[column_widgets[i][f]].value = ""
              /\ \A f \in 1..5 : ~widgets[column_widgets[i][f]].destroyed

----------------------------------------------------------------------------
(* Requests for rows of numbers, made one after another by one process *)

\* an integer, a float and a boolean column, under three names and under two
NumberColumnLists ==
    {<<Column("id", "integer", Some(ToMilli(1)), Some(ToMilli(5)), None),
       Column("x", "float", None, None, None),
       Column("b", "boolean", None, None, None)>>,
     <<Column("d", "integer", Some(ToMilli(1)), Some(ToMilli(5)), None),
       Column("e", "float", None, None, None),
       Column("d", "boolean", None, None, None)>>}

\* one row as csv, txt and xml, two rows as csv; one row for excel, to o.csv
NumberFiles ==
    {File(fmt, 1, Len(columns), columns, CorePath(fmt)) :
        fmt \in {"csv", "txt", "xml"}, columns \in NumberColumnLists}
    \cup
    {File("csv", 2, Len(columns), columns, CorePath("csv")) :
        columns \in NumberColumnLists}
    \cup
    {File("excel", 1, Len(columns), columns, OutCsv) :
        columns \in {c \in NumberColumnLists : c[1].name = "id"}}

\* the small files with the default batch size, and two batches of the
\* three-name columns
NumberRequests ==
    {Request(config, seed, DEFAULT_BATCH_SIZE) :
        config \in NumberFiles, seed \in SeedInputs}
    \cup
    {Request(File("csv", MIN_BATCH_SIZE + 1, Len(columns), columns, CorePath("csv")),
             seed, MIN_BATCH_SIZE) :
        columns \in {c \in NumberColumnLists : c[1].name = "id"},
        seed \in SeedInputs}

\* the caller builds the request it will use next: the first one, or one for
\* the file of the request it holds, with a seed of its choice
NewNumberRequest ==
    /\ Idle
    /\ Len(calls) < MaxCalls
    /\ \E input \in NumberRequests :
          LET r == GenerationRequest(input)
          IN  /\ request # <<>> => input.config = request[1].config
              /\ r.ok
              /\ request' = r.obj
    /\ UNCHANGED <<extras, units, rng, fakerRng, osRng, fs, pc, all_data,
                   batch_start, exc, result, trace, entry, calls>>

NextNumbers ==
    \/ NewNumberRequest
    \/ GenerateCall
    \/ SeedStep
    \/ MkdirStep
    \/ BatchStep
    \/ DispatchStep
    \/ WriteStep
    \/ ReturnStep
    \/ ExceptStep

SpecNumbers == InitModel /\ [][NextNumbers]_vars

----------------------------------------------------------------------------
(* Claims on the command line *)

\* the rows or columns given to run are out of range
OutOfRange(args) ==
    \/ args.rows <= 0 \/ args.rows > MAX_ROWS
    \/ args.columns <= 0 \/ args.columns > MAX_COLUMNS

\* C21: run invokes generate at most once, and only after validate returned
\* the empty list for the file configuration run built; with rows or columns
\* out of range, with a failed construction or with a validation error run
\* returns 1 and generate was not invoked; with --validate-only run returns 0
\* on a valid configuration and generate was not invoked; otherwise run
\* returns 0 only after generate succeeded.
C21_GenerateOnlyAfterValidate ==
    cli.stage # "" =>
        LET args == cli.args[1]
            invoked == calls # <<>>
            validated == errors.config # <<>>
        IN  /\ Len(calls) <= 1
            /\ invoked =>
                  /\ validated /\ errors.list = <<>>
                  /\ errors.config = <<request[1].config>>
                  /\ errors.config = cli.built
                  /\ ~args.validate_only
            /\ (OutOfRange(args) \/ cli.built = <<>> \/ errors.list # <<>>) =>
                  /\ ~invoked
                  /\ cli.stage = "returned" => cli.code = 1
            /\ args.validate_only => ~invoked
            /\ (args.validate_only /\ validated /\ errors.list = <<>>) =>
                  cli.stage = "returned" /\ cli.code = 0
            /\ (cli.stage = "returned" /\ cli.code = 0 /\ ~args.validate_only) =>
                  calls = <<"generate_ok">> /\ result.ok /\ result.by = "generate"
            /\ cli.stage = "exited" => ~invoked

\* run returned 0 after generate wrote the file of a seeded request
C21_Witness ==
    /\ cli.stage = "returned"
    /\ cli.code = 0
    /\ calls = <<"generate_ok">>
    /\ errors.list = <<>>
    /\ cli.args[1].seed = Some(0)
    /\ cli.output_path \in DOMAIN fs.files

----------------------------------------------------------------------------
(* Claims on the steps of generate *)

\* the ranges handed to the row builder by the current call, in order
BatchRanges == SelectSeq(trace, LAMBDA st : st.step = "batch")

\* ceil(a / b)
CeilDiv(a, b) == (a + b - 1) \div b

\* the batch loop of the current call is over and every batch succeeded
LoopDone == \E i \in 1..Len(trace) : trace[i].step = "dispatch"

\* the ranges so far are half-open, non-empty, ascending and adjacent from 0,
\* of batch_size indices but possibly the one that ends at row_count, no more
\* than ceil(row_count / batch_size); once the loop is over they cover
\* [0, row_count) and there is a row for each index
RangesPartition ==
    request # <<>> =>
        LET req == request[1]
            n == req.config.num_rows
            B == BatchRanges
        IN  /\ Len(B) <= CeilDiv(n, req.batch_size)
            /\ \A k \in 1..Len(B) :
                  /\ B[k].lo < B[k].hi
                  /\ B[k].hi <= n
                  /\ B[k].lo = IF k = 1 THEN 0 ELSE B[k - 1].hi
                  /\ B[k].hi - B[k].lo = req.batch_size \/ B[k].hi = n
                  /\ k < Len(B) => B[k].hi - B[k].lo = req.batch_size
            /\ (pc = "batch" /\ B # <<>>) => Len(all_data) = B[Len(B)].hi
            /\ LoopDone =>
                  /\ Len(B) = CeilDiv(n, req.batch_size)
                  /\ B[Len(B)].hi = n
                  /\ Len(all_data) = n

\* the iterations the batch loop has still to make
Remaining ==
    IF pc # "batch" THEN 0
    ELSE CeilDiv(request[1].config.num_rows - batch_start, request[1].batch_size)

\* C22: the ranges generate hands to the row builder partition [0, row_count)
\* (half-open, non-empty, ascending, adjacent, of batch_size indices but
\* possibly the last, ceil(row_count / batch_size) of them, one row per
\* index), and the batch loop terminates: every iteration leaves the loop or
\* leaves one iteration less to make.
C22_BatchesPartition ==
    /\ []RangesPartition
    /\ [][pc = "batch" => /\ Remaining >= 1
                          /\ Remaining' = Remaining - 1 \/ pc' = "except"]_vars

\* 201 rows in batches of 100: the ranges [0,100), [100,200), [200,201)
C22_Witness ==
    /\ LoopDone
    /\ request[1].batch_size = 100
    /\ request[1].config.num_rows = 201
    /\ Len(BatchRanges) = 3
    /\ BatchRanges[3].lo = 200 /\ BatchRanges[3].hi = 201

\* the place of a step in a run of generate
Rank(st) ==
    CASE st.step = "seed" -> 1 [] st.step = "mkdir" -> 2 [] st.step = "batch" -> 3
      [] st.step = "dispatch" -> 4 [] st.step = "write" -> 5 [] st.step = "return" -> 6

\* the call in progress, or the last one, has passed the seeding
Seeded == request # <<>> /\ (pc \notin {"idle", "seed"} \/ trace # <<>>)

\* C23: a run of generate seeds the random source iff the seed is not absent
\* (seed 0 included), then creates the missing parent directories, then runs
\* all the batches, then dispatches, then calls the writer once with all the
\* rows, then returns the path; each step comes right after the one before.
C23_StepOrder ==
    request # <<>> =>
        LET req == request[1]
            n == req.config.num_rows
            first == IF req.seed # None THEN "seed" ELSE "mkdir"
        IN  /\ \A i \in 1..Len(trace) :
                  LET st == trace[i]
                      prev == IF i = 1 THEN "" ELSE trace[i - 1].step
                  IN  /\ i = 1 => st.step = first
                      /\ st.step = "seed" => i = 1
                      /\ st.step = "mkdir" => prev = IF req.seed # None THEN "seed" ELSE ""
                      /\ st.step = "batch" =>
                            \/ prev = "mkdir" /\ st.lo = 0
                            \/ prev = "batch" /\ st.lo = trace[i - 1].hi
                      /\ st.step = "dispatch" => prev = "batch" /\ trace[i - 1].hi = n
                      /\ st.step = "write" => prev = "dispatch" /\ st.hi = n
                      /\ st.step = "return" => prev = "write" /\ i = Len(trace)
                      /\ \A j \in (i + 1)..Len(trace) :
                            Rank(st) < Rank(trace[j]) \/ st.step = "batch"
            /\ (Seeded /\ pc = "mkdir" /\ req.seed # None) => rng = SeedState(req.seed[1])
            /\ (Seeded /\ pc = "mkdir" /\ req.seed = None) => rng = entry.rng
            /\ pc \in {"batch", "dispatch", "write", "return"} =>
                  PathParent(req.config.output_path) \in fs.dirs
            /\ pc \in {"write", "return"} => Len(all_data) = n
            /\ pc = "return" => req.config.output_path \in DOMAIN fs.files
            /\ (result.by = "generate" /\ result.ok) =>
                  /\ trace # <<>> /\ trace[Len(trace)].step = "return"
                  /\ result.path = <<PathStr(req.config.output_path)>>

\* a run seeded with 0 that created the directory d and returned d/o.json
C23_Witness ==
    /\ result.by = "generate" /\ result.ok
    /\ request[1].seed = Some(0)
    /\ request[1].config.output_path = OutSubJson
    /\ SubDir \notin entry.fs.dirs
    /\ SubDir \in fs.dirs
    /\ trace[1].step = "seed"
    /\ Len(trace) = 6

----------------------------------------------------------------------------
(* Claims on the extension check *)

\* the extension the check expects for a format: a dot and the format's token
DotToken(fmt) ==
    CASE fmt = "csv" -> <<".", "c", "s", "v">>
      [] fmt = "json" -> <<".", "j", "s", "o", "n">>
      [] fmt = "xml" -> <<".", "x", "m", "l">>
      [] fmt = "txt" -> <<".", "t", "x", "t">>
      [] fmt = "excel" -> <<".", "e", "x", "c", "e", "l">>

\* C24: for each of the five formats, validate(config) holds the
\* extension-mismatch message iff the lower-cased final suffix of output_path
\* differs from a dot followed by the format's token; an upper-case extension
\* passes, and a path with the matching extension passes for every format.
C24_ExtensionCheck ==
    (errors.config # <<>> /\ errors.config[1].file_format \in FileFormats) =>
        LET config == errors.config[1]
            path == config.output_path
            said == MSG_EXTENSION \in Messages(errors.list)
        IN  /\ said <=> Lower(PathSuffix(path)) # DotToken(config.file_format)
            /\ path = Stem \o DotToken(config.file_format) => ~said
            /\ (path = Stem \o <<".", "C", "S", "V">> /\ config.file_format = "csv") => ~said
            /\ PathSuffix(path) = <<>> => said

\* validate passed o.CSV for the format csv
C24_Witness ==
    /\ errors.config # <<>>
    /\ errors.config[1].file_format = "csv"
    /\ errors.config[1].output_path = WithExt(Stem, <<"C", "S", "V">>)
    /\ built.checked
    /\ errors.list = <<>>

----------------------------------------------------------------------------
(* Claims on the output file handle *)

\* C25: the handle a writer opens on the output file is released before the
\* writer returns or raises: once generate (or a writer called directly) has
\* returned or raised, no handle on config.output_path is open, whether the
\* file was written, could not be opened, or a row was refused half-way.
C25_HandleReleased ==
    (request # <<>> /\ pc \in {"idle", "return", "except"}) =>
        /\ request[1].config.output_path \notin fs.handles
        /\ fs.handles = {}

\* the CSV writer raised on its second row, the header and the first row
\* written, and left no handle open
C25_Witness ==
    /\ result.by = "writer"
    /\ ~result.ok
    /\ result.given = 2
    /\ request[1].config.file_format = "csv"
    /\ request[1].config.output_path \in DOMAIN fs.files
    /\ fs.files[request[1].config.output_path].format = "csv"
    /\ Len(fs.files[request[1].config.output_path].payload) = 2
    /\ fs.handles = {}

----------------------------------------------------------------------------
(* Claims on seeded rows of numbers *)

NumberTypes == {"integer", "float", "boolean"}

AllNumbers(config) ==
    \A i \in 1..Len(config.columns) : config.columns[i].data_type \in NumberTypes

\* the rows the request gives when it is the first thing a process runs
RowsWhenFirst(req) ==
    generate_batch(req.config, 0, req.config.num_rows,
                   Sources(SeedState(req.seed[1]), 0, 0)).rows

\* the batch loop of the current generate call is over
RowsComplete == pc \in {"dispatch", "write", "return"}

\* C26: for a request with a seed whose columns are all integer, float or
\* boolean, the rows generate produces are those the request gives when it
\* is run first, whatever calls (seeded or not) the process made before.
C26_SeededNumbersIgnoreHistory ==
    (/\ request # <<>>
     /\ RowsComplete
     /\ request[1].seed # None
     /\ AllNumbers(request[1].config)) =>
        all_data = RowsWhenFirst(request[1])

\* a seeded request run as the second call, entered with the source in
\* another state than a fresh process has and than the seed gives
C26_Witness ==
    /\ request # <<>>
    /\ pc = "return"
    /\ Len(calls) = MaxCalls
    /\ request[1].seed # None
    /\ AllNumbers(request[1].config)
    /\ entry.rng # 0
    /\ entry.rng # SeedState(request[1].seed[1])
    /\ request[1].config.num_rows > request[1].batch_size
    /\ all_data = RowsWhenFirst(request[1])

----------------------------------------------------------------------------
(* Claims on columns that share a name *)

SharesNames(config) ==
    \E i, j \in 1..Len(config.columns) :
        i < j /\ config.columns[i].name = config.columns[j].name

\* the state of `random` when the first value of the current call is drawn
RngAtFirstDraw ==
    IF request[1].seed # None THEN SeedState(request[1].seed[1]) ELSE entry.rng

\* the value drawn for column j of row i when every column draws once, in
\* config.columns order
DrawnFor(config, i, j) ==
    LET col == config.columns[j]
        at == (RngAtFirstDraw + (i - 1) * Len(config.columns) + (j - 1)) % RngMod
    IN  Generate(create_generator(col.data_type).cls, col, Sources(at, 0, 0)).val[1]

FirstWithName(config, name) ==
    CHOOSE j \in 1..Len(config.columns) :
        /\ config.columns[j].name = name
        /\ \A k \in 1..(j - 1) : config.columns[k].name # name

LastWithName(config, name) ==
    CHOOSE j \in 1..Len(config.columns) :
        /\ config.columns[j].name = name
        /\ \A k \in (j + 1)..Len(config.columns) : config.columns[k].name # name

\* row i holds one entry per distinct name, at the place of the name's first
\* column and with the value of its last
RowAsClaimed(config, i, row) ==
    /\ Len(row) = Cardinality({config.columns[j].name : j \in 1..Len(config.columns)})
    /\ \A p \in 1..Len(row) :
          /\ row[p].k \in {config.columns[j].name : j \in 1..Len(config.columns)}
          /\ row[p].v = DrawnFor(config, i, LastWithName(config, row[p].k))
    /\ \A p, q \in 1..Len(row) :
          p < q => FirstWithName(config, row[p].k) < FirstWithName(config, row[q].k)

\* the text the written file holds for column j of row i
Emitted(content, i, j) ==
    CASE content.format = "csv" -> content.payload[i + 1][j]
      [] content.format = "txt" -> content.payload[i + 2].joined[j]
      [] content.format = "xml" -> content.payload[1].children[i].children[j].text

\* C28: when columns share a name, every row draws one value per column in
\* config.columns order but holds one entry per distinct name, placed where
\* the name came first and valued by the name's last column; the CSV, TXT
\* and XML writers emit that value under each column of the name.
C28_SharedNames ==
    (/\ request # <<>>
     /\ RowsComplete
     /\ SharesNames(request[1].config)) =>
        LET config == request[1].config
        IN  /\ Len(all_data) = config.num_rows
            /\ rng = (RngAtFirstDraw + config.num_rows * Len(config.columns)) % RngMod
            /\ \A i \in 1..Len(all_data) : RowAsClaimed(config, i, all_data[i])
            /\ (pc = "return" /\ config.file_format \in {"csv", "txt", "xml"}) =>
                  \A i \in 1..Len(all_data), j \in 1..Len(config.columns) :
                      Emitted(fs.files[config.output_path], i, j) =
                          Str(DrawnFor(config, i, LastWithName(config, config.columns[j].name)))

\* two rows of three columns under two names were written as CSV: the first
\* and the third field of the second row are the same boolean
C28_Witness ==
    /\ request # <<>>
    /\ pc = "return"
    /\ SharesNames(request[1].config)
    /\ request[1].config.file_format = "csv"
    /\ Len(all_data) = 2
    /\ Len(all_data[2]) = 2
    /\ all_data[2][1].k = "d"
    /\ all_data[2][1].v.t = "bool"
    /\ Emitted(fs.files[request[1].config.output_path], 2, 1) = Str(all_data[2][1].v)
    /\ Emitted(fs.files[request[1].config.output_path], 2, 3) = Str(all_data[2][1].v)

----------------------------------------------------------------------------
(* Claims on the range an integer column samples from *)

\* C27: for every integer column that construction accepts, value
\* generation succeeds: the range [int(min_value or 0), int(max_value or
\* 1000)] is never empty, a column with one bound alone included.
C27_IntegerRangeNeverEmpty ==
    (value.col # <<>> /\ value.col[1].data_type = "integer") => value.ok

----------------------------------------------------------------------------
(* Claims on the rows a manager holds *)

HeldWidgets ==
    UNION {{column_widgets[p][f] : f \in 1..ROW_WIDGETS} : p \in 1..Len(column_widgets)}

\* C29: after a column-count update with any integer argument, zero and
\* negative counts included, no widget held in column_widgets has been
\* destroyed and the number of held rows is the count asked for, in
\* ColumnManagerLogic and in MainWindow alike.
C29_HeldRowsAliveAndCounted ==
    (subject # "" /\ last.op = "update") =>
        /\ \A w \in HeldWidgets : ~widgets[w].destroyed
        /\ Len(column_widgets) = last.n

----------------------------------------------------------------------------
(* Claims on the output path of the command line *)

\* C30: the output path run builds (--output, with "." and the format
\* appended unless the argument already ends with it) passes the extension
\* check of validate_configuration for the same format, whatever --output
\* and the format are: run never gets the extension-mismatch message.
C30_CliPathPassesExtensionCheck ==
    (cli.stage # "" /\ cli.built # <<>>) =>
        /\ errors.config = cli.built
        /\ cli.built[1].output_path =
               cli_output_path(cli.args[1].output, cli.args[1].format)
        /\ MSG_EXTENSION \notin Messages(errors.list)

====
